---- MODULE Spec2Model ----
(***************************************************************************)
(* repo-doctor: the metrics-collection and scoring engine.                 *)
(*                                                                         *)
(*   SecurityScanner    (src/src/scanners/security-scanner.ts)             *)
(*   RepositoryAnalyzer (src/src/reporters/json-reporter.ts, l. 322-747)   *)
(*                                                                         *)
(* Representation of values:                                               *)
(*   - a file or directory name is the sequence of its characters, so that *)
(*     String.endsWith is a comparison of suffixes;                        *)
(*   - a relative path is the sequence of its components (path.join        *)
(*     appends one component);                                             *)
(*   - the display name of a secret rule is the sequence of its words      *)
(*     (String.includes('Private Key') looks for two adjacent words);      *)
(*   - the text of a regular-expression match is the sequence of its       *)
(*     characters; the regular-expression engine itself is the JavaScript  *)
(*     runtime: a line of a file is given by the matches the engine finds  *)
(*     in it, in the order of their position;                              *)
(*   - a time is a whole number of ticks, TicksPerDay ticks to the day.    *)
(***************************************************************************)
EXTENDS Integers, Sequences, FiniteSets

VARIABLES
  tree,         \* the working tree: the repository root directory
  gitLog,       \* git.log(): the commits, newest first
  gitBranches,  \* git.branch(['-a']): the branch names, each with what
                \* git.log(['-1', name]) answers for it
  now,          \* Date.now()
  options,      \* this.options of the analyzer
  pc,           \* position of the running operation
  finished,     \* the collectors of Promise.all that have settled
  basic,        \* BasicMetrics
  commits,      \* CommitMetrics, with the git.show calls made for it
  files,        \* FileMetrics
  branches,     \* BranchMetrics
  security,     \* SecurityMetrics, with the file-system calls made for it
  health,       \* the RepositoryHealth that analyze returned
  firstRun,     \* the clock and the result of an earlier run of analyze
                \* on the same analyzer
  invocation,   \* how the analyzer is entered (a command of the CLI or a
                \* direct call) and what is at the repository path
  exitCode      \* <<status>> once the command has called process.exit

vars == <<tree, gitLog, gitBranches, now, options, pc, finished,
          basic, commits, files, branches, security, health,
          firstRun, invocation, exitCode>>

repository == <<tree, gitLog, gitBranches, now, options>>

NoValue == [none |-> TRUE]

\* analyze() called on an analyzer constructed for a git repository
DirectCall == [command |-> "direct", root |-> "valid"]

Min(a, b) == IF a < b THEN a ELSE b
Max(a, b) == IF a > b THEN a ELSE b

(***************************************************************************)
(* String and array primitives of the JavaScript runtime.                  *)
(***************************************************************************)

\* String.prototype.endsWith
endsWith(s, suffix) ==
  /\ Len(suffix) <= Len(s)
  /\ SubSeq(s, Len(s) - Len(suffix) + 1, Len(s)) = suffix

\* String.prototype.includes / a contiguous run of `sub` inside `s`
includes(s, sub) ==
  \E i \in 0..(Len(s) - Len(sub)) : SubSeq(s, i + 1, i + Len(sub)) = sub

\* Array.prototype.includes
arrayIncludes(arr, x) == \E i \in 1..Len(arr) : arr[i] = x

\* String.prototype.substring(0, n)
substring0(s, n) == SubSeq(s, 1, Min(n, Len(s)))

(***************************************************************************)
(* security-scanner.ts: the static tables.                                 *)
(***************************************************************************)

\* Each rule: display name and severity.  The rule's regular expression is
\* applied by the runtime; rule k's matches in a line are matchAll(line, k).
SECRET_PATTERNS ==
  << [name |-> <<"AWS", "Access", "Key">>, severity |-> "critical"],
     [name |-> <<"AWS", "Secret", "Key">>, severity |-> "critical"],
     [name |-> <<"Google", "Cloud", "API", "Key">>, severity |-> "critical"],
     [name |-> <<"Azure", "Client", "Secret">>, severity |-> "critical"],
     [name |-> <<"Cloudflare", "API", "Token">>, severity |-> "critical"],
     [name |-> <<"GitHub", "Token", "(ghp)">>, severity |-> "critical"],
     [name |-> <<"GitHub", "OAuth", "Token">>, severity |-> "critical"],
     [name |-> <<"GitHub", "App", "Token">>, severity |-> "critical"],
     [name |-> <<"GitHub", "Refresh", "Token">>, severity |-> "critical"],
     [name |-> <<"GitLab", "Token">>, severity |-> "critical"],
     [name |-> <<"Slack", "Token">>, severity |-> "critical"],
     [name |-> <<"Slack", "Webhook">>, severity |-> "critical"],
     [name |-> <<"Discord", "Webhook">>, severity |-> "warning"],
     [name |-> <<"Telegram", "Bot", "Token">>, severity |-> "critical"],
     [name |-> <<"Stripe", "API", "Key">>, severity |-> "critical"],
     [name |-> <<"Stripe", "Restricted", "Key">>, severity |-> "critical"],
     [name |-> <<"PayPal", "Access", "Token">>, severity |-> "critical"],
     [name |-> <<"Square", "Access", "Token">>, severity |-> "critical"],
     [name |-> <<"MongoDB", "Connection", "String">>, severity |-> "warning"],
     [name |-> <<"PostgreSQL", "Connection", "String">>, severity |-> "warning"],
     [name |-> <<"MySQL", "Connection", "String">>, severity |-> "warning"],
     [name |-> <<"Redis", "Connection", "String">>, severity |-> "warning"],
     [name |-> <<"Generic", "API", "Key">>, severity |-> "warning"],
     [name |-> <<"Private", "Key">>, severity |-> "critical"],
     [name |-> <<"Password", "in", "Code">>, severity |-> "warning"],
     [name |-> <<"JWT", "Token">>, severity |-> "warning"],
     [name |-> <<"Bearer", "Token">>, severity |-> "warning"],
     [name |-> <<"Basic", "Auth">>, severity |-> "warning"],
     [name |-> <<"Twilio", "API", "Key">>, severity |-> "critical"],
     [name |-> <<"SendGrid", "API", "Key">>, severity |-> "critical"],
     [name |-> <<"Mailgun", "API", "Key">>, severity |-> "critical"],
     [name |-> <<"NPM", "Token">>, severity |-> "critical"],
     [name |-> <<"PyPI", "Token">>, severity |-> "critical"],
     [name |-> <<"Docker", "Hub", "Token">>, severity |-> "critical"],
     [name |-> <<"Heroku", "API", "Key">>, severity |-> "critical"],
     [name |-> <<"Firebase", "API", "Key">>, severity |-> "warning"] >>

SENSITIVE_FILES ==
  << <<".","e","n","v">>,
     <<".","e","n","v",".","l","o","c","a","l">>,
     <<".","e","n","v",".","p","r","o","d","u","c","t","i","o","n">>,
     <<"c","r","e","d","e","n","t","i","a","l","s",".","j","s","o","n">>,
     <<"s","e","c","r","e","t","s",".","y","m","l">>,
     <<"s","e","c","r","e","t","s",".","y","a","m","l">>,
     <<"i","d","_","r","s","a">>,
     <<"i","d","_","d","s","a">>,
     <<".","n","p","m","r","c">>,
     <<".","p","y","p","i","r","c">>,
     <<"c","o","n","f","i","g","/","d","a","t","a","b","a","s","e",".","y","m","l">>,
     <<"c","o","n","f","i","g","/","s","e","c","r","e","t","s",".","y","m","l">> >>

BINARY_EXTENSIONS ==
  << <<".","e","x","e">>,
     <<".","d","l","l">>,
     <<".","s","o">>,
     <<".","d","y","l","i","b">>,
     <<".","b","i","n">>,
     <<".","d","a","t">>,
     <<".","z","i","p">>,
     <<".","t","a","r">>,
     <<".","g","z">>,
     <<".","r","a","r">>,
     <<".","7","z">>,
     <<".","p","d","f">>,
     <<".","d","o","c">>,
     <<".","d","o","c","x">>,
     <<".","x","l","s">>,
     <<".","x","l","s","x">> >>

\* the excerpt of a match keeps at most this many characters of it
ExcerptLen == 50

Ellipsis == <<".", ".", ".">>

(***************************************************************************)
(* SecurityScanner                                                         *)
(***************************************************************************)

scannerSkipDirs ==
  << <<"n","o","d","e","_","m","o","d","u","l","e","s">>,
     <<".","g","i","t">>,
     <<"d","i","s","t">>,
     <<"b","u","i","l","d">>,
     <<"c","o","v","e","r","a","g","e">>,
     <<".","n","e","x","t">>,
     <<"o","u","t">> >>

\* shouldSkipPath with the shorter list of the analyzer
scannerShouldSkipPathShortList(name) ==
  arrayIncludes(<< <<".","g","i","t">>,
                   <<"n","o","d","e","_","m","o","d","u","l","e","s">>,
                   <<"d","i","s","t">>,
                   <<"b","u","i","l","d">>,
                   <<"c","o","v","e","r","a","g","e">> >>, name)

\* SecurityScanner.shouldSkipPath
scannerShouldSkipPath(name) == arrayIncludes(scannerSkipDirs, name)

\* isSensitiveFile by equality of the whole name
isSensitiveFileExact(filename) == arrayIncludes(SENSITIVE_FILES, filename)

\* SecurityScanner.isSensitiveFile
isSensitiveFile(filename) ==
  \E i \in 1..Len(SENSITIVE_FILES) : endsWith(filename, SENSITIVE_FILES[i])

\* SecurityScanner.isBinaryFile
scannerIsBinaryFile(filename) ==
  \E i \in 1..Len(BINARY_EXTENSIONS) : endsWith(filename, BINARY_EXTENSIONS[i])

\* the first match only, as of a pattern without the g flag
matchAllFirstOnly(line, k) ==
  LET all == SelectSeq(line, LAMBDA h : h.rule = k)
  IN SubSeq(all, 1, IF Len(all) > 0 THEN 1 ELSE 0)

\* line.matchAll(pattern.pattern) for rule k: the matches of that rule in the
\* line, by position
matchAll(line, k) == SelectSeq(line, LAMBDA h : h.rule = k)

\* the excerpt with the ellipsis from 50 characters on instead of above 50
matchExcerptFromFifty(raw) ==
  substring0(raw, ExcerptLen) \o (IF Len(raw) >= ExcerptLen THEN Ellipsis ELSE <<>>)

\* the match excerpt of a finding (security-scanner.ts line 319)
matchExcerpt(raw) ==
  substring0(raw, ExcerptLen) \o (IF Len(raw) > ExcerptLen THEN Ellipsis ELSE <<>>)

\* the finding built for one match (security-scanner.ts lines 315-321)
makeFinding(filePath, lineNumber, pattern, raw) ==
  [file     |-> filePath,
   line     |-> lineNumber,
   type     |-> pattern.name,
   match    |-> matchExcerpt(raw),
   severity |-> pattern.severity]

\* `for (const match of matches)`: one finding for each match, in order
matchFindings(matches, filePath, lineNumber, pattern) ==
  [m \in 1..Len(matches) |->
     makeFinding(filePath, lineNumber, pattern, matches[m].raw)]

\* `for (const pattern of SECRET_PATTERNS)`, from rule k on
RECURSIVE patternFindings(_, _, _, _)
patternFindings(line, k, filePath, lineNumber) ==
  IF k > Len(SECRET_PATTERNS) THEN <<>>
  ELSE matchFindings(matchAll(line, k), filePath, lineNumber, SECRET_PATTERNS[k])
       \o patternFindings(line, k + 1, filePath, lineNumber)

\* `for (let i = 0; i < lines.length; i++)`, from line i on (lineNumber = i)
RECURSIVE lineFindings(_, _, _)
lineFindings(lines, i, filePath) ==
  IF i > Len(lines) THEN <<>>
  ELSE patternFindings(lines[i], 1, filePath, i) \o lineFindings(lines, i + 1, filePath)

\* the routing test with the rule name in another case: it matches no rule
routedToKeysLowerCase(finding) == includes(finding.type, <<"private", "key">>)

\* the routing of a finding: keys.push for a private-key rule, secrets.push
\* for every other
routedToKeys(finding) == includes(finding.type, <<"Private", "Key">>)

\* SecurityScanner.scanFileContent; `content` is given as content.split('\n').
\* The findings are pushed in the order they are built.
scanFileContent(content, filePath, acc) ==
  LET findings == lineFindings(content, 1, filePath)
  IN [acc EXCEPT
        !.keys    = @ \o SelectSeq(findings, routedToKeys),
        !.secrets = @ \o SelectSeq(findings, LAMBDA f : ~routedToKeys(f))]

\* the else-branch of scanDirectory's loop: one regular file
scanFile(entry, relPath, acc) ==
  LET a1 == IF isSensitiveFile(entry.name)
              THEN [acc EXCEPT !.sensitiveFiles = Append(@, relPath)]
              ELSE acc
  IN IF scannerIsBinaryFile(entry.name) THEN a1
     ELSE IF ~entry.readable
       THEN [a1 EXCEPT !.readCalls = Append(@, relPath)]   \* readFileSync throws, caught
       ELSE scanFileContent(entry.content, relPath,
                            [a1 EXCEPT !.readCalls = Append(@, relPath)])

RECURSIVE scanEntries(_, _, _, _)
RECURSIVE scanDirectory(_, _, _, _)

\* the loop `for (const entry of entries)` of scanDirectory, from entry i on
scanEntries(entries, i, relativePath, acc) ==
  IF acc.threw \/ i > Len(entries) THEN acc
  ELSE LET entry   == entries[i]
           relPath == Append(relativePath, entry.name)
       IN IF scannerShouldSkipPath(entry.name)
            THEN scanEntries(entries, i + 1, relativePath, acc)
          ELSE IF entry.isDir
            THEN scanEntries(entries, i + 1, relativePath,
                             scanDirectory(entry.children, entry.listable, relPath, acc))
          ELSE scanEntries(entries, i + 1, relativePath, scanFile(entry, relPath, acc))

\* SecurityScanner.scanDirectory: readdirSync(dir) throws when the directory
\* cannot be listed, and nothing in the scanner catches that
scanDirectory(entries, listable, relativePath, acc) ==
  IF ~listable
    THEN [acc EXCEPT !.threw = TRUE, !.readdirCalls = Append(@, relativePath)]
    ELSE scanEntries(entries, 1, relativePath,
                     [acc EXCEPT !.readdirCalls = Append(@, relativePath)])

\* SecurityScanner.scan: the three collections, plus the file-system calls
\* made (readdirSync, readFileSync) and whether the call rejected
scan(root) ==
  LET acc == scanDirectory(root.children, root.listable, <<>>,
                           [secrets |-> <<>>, sensitiveFiles |-> <<>>, keys |-> <<>>,
                            threw |-> FALSE, readdirCalls |-> <<>>,
                            readCalls |-> <<>>])
  IN [potentialSecrets |-> acc.secrets,
      sensitiveFiles   |-> acc.sensitiveFiles,
      exposedKeys      |-> acc.keys,
      threw            |-> acc.threw,
      readdirCalls     |-> acc.readdirCalls,
      readCalls        |-> acc.readCalls]

(***************************************************************************)
(* RepositoryAnalyzer: helpers                                             *)
(***************************************************************************)

\* ticks to the day (the code counts milliseconds, 1000 * 60 * 60 * 24 a day)
TicksPerDay == 4

\* '' (the empty string)
EmptyString == <<>>

\* formatDate (utils/format): the display date of a time, its day
formatDate(date) == <<date \div TicksPerDay>>

\* formatBytes (utils/format): binary prefix, one decimal kept (in tenths)
byteUnits == <<"B", "KB", "MB", "GB">>

RECURSIVE pow1024(_)
pow1024(i) == IF i = 0 THEN 1 ELSE 1024 * pow1024(i - 1)

formatBytes(bytes) ==
  IF bytes = 0 THEN [tenths |-> 0, unit |-> "B"]
  ELSE LET i == CHOOSE k \in 0..3 :
                  /\ pow1024(k) <= bytes
                  /\ (k = 3 \/ bytes < pow1024(k + 1))
           d == pow1024(i)
       IN [tenths |-> (20 * bytes + d) \div (2 * d), unit |-> byteUnits[i + 1]]

\* Array.prototype.sort((a, b) => b[key] - a[key]): stable, descending
RECURSIVE insertDesc(_, _, _)
insertDesc(sorted, x, key) ==
  IF sorted = <<>> THEN <<x>>
  ELSE IF x[key] > Head(sorted)[key] THEN <<x>> \o sorted
  ELSE <<Head(sorted)>> \o insertDesc(Tail(sorted), x, key)

RECURSIVE sortDescFrom(_, _, _, _)
sortDescFrom(arr, i, key, sorted) ==
  IF i > Len(arr) THEN sorted
  ELSE sortDescFrom(arr, i + 1, key, insertDesc(sorted, arr[i], key))

sortDesc(arr, key) == sortDescFrom(arr, 1, key, <<>>)

\* Array.prototype.slice(0, n)
slice0(arr, n) == SubSeq(arr, 1, Min(n, Len(arr)))

\* RepositoryAnalyzer.shouldSkipPath
analyzerSkipDirs ==
  << <<".","g","i","t">>,
     <<"n","o","d","e","_","m","o","d","u","l","e","s">>,
     <<"d","i","s","t">>,
     <<"b","u","i","l","d">>,
     <<"c","o","v","e","r","a","g","e">> >>

shouldSkipPath(name) == arrayIncludes(analyzerSkipDirs, name)

binaryExts ==
  << <<".","e","x","e">>,
     <<".","d","l","l">>,
     <<".","s","o">>,
     <<".","d","y","l","i","b">>,
     <<".","b","i","n">>,
     <<".","p","d","f">>,
     <<".","z","i","p">>,
     <<".","t","a","r">>,
     <<".","g","z">> >>

\* RepositoryAnalyzer.isBinaryFile
isBinaryFile(filename) ==
  \E i \in 1..Len(binaryExts) : endsWith(filename, binaryExts[i])

NoExtension == <<"n","o"," ","e","x","t","e","n","s","i","o","n">>

\* path.extname: from the last '.' on, '' when there is none or when the only
\* one is the first character of the name
extname(name) ==
  LET dots == {i \in 1..Len(name) : name[i] = "."}
  IN IF dots = {} THEN EmptyString
     ELSE LET last == CHOOSE i \in dots : \A j \in dots : j <= i
          IN IF last = 1 THEN EmptyString ELSE SubSeq(name, last, Len(name))

(***************************************************************************)
(* RepositoryAnalyzer.countFiles                                           *)
(***************************************************************************)

RECURSIVE countEntries(_, _, _)
RECURSIVE countFiles(_, _)

\* the loop of countFiles from entry i on; acc = [count, threw]
countEntries(entries, i, acc) ==
  IF acc.threw \/ i > Len(entries) THEN acc
  ELSE LET entry == entries[i]
       IN IF shouldSkipPath(entry.name) THEN countEntries(entries, i + 1, acc)
          ELSE IF entry.isDir
            THEN LET sub == countFiles(entry.children, entry.listable)
                 IN countEntries(entries, i + 1,
                                 [count |-> acc.count + sub.count, threw |-> sub.threw])
          ELSE countEntries(entries, i + 1, [acc EXCEPT !.count = @ + 1])

\* readdirSync throws for a directory that cannot be listed
countFiles(entries, listable) ==
  IF ~listable THEN [count |-> 0, threw |-> TRUE]
  ELSE countEntries(entries, 1, [count |-> 0, threw |-> FALSE])

(***************************************************************************)
(* RepositoryAnalyzer.analyzeFilesRecursive / analyzeFileMetrics           *)
(***************************************************************************)

BytesPerMB == 1048576

\* the large-file test with >= for >
exceedsMaxSizeInclusive(size, maxFileSize) == size >= maxFileSize * BytesPerMB

\* `stats.size > maxSize`, maxSize = this.options.maxFileSize * 1024 * 1024
exceedsMaxSize(size, maxFileSize) == size > maxFileSize * BytesPerMB

\* the else-branch of analyzeFilesRecursive's loop: one regular file.
\* statSync throws for a file that cannot be stat'ed.
analyzeFile(entry, relPath, maxFileSize, acc) ==
  IF ~entry.statable THEN [acc EXCEPT !.threw = TRUE]
  ELSE
    LET ext      == IF extname(entry.name) = EmptyString
                      THEN NoExtension ELSE extname(entry.name)
        isBinary == isBinaryFile(entry.name)
        types    == IF ext \in DOMAIN acc.fileTypes
                      THEN [acc.fileTypes EXCEPT ![ext] = @ + 1]
                      ELSE [e \in DOMAIN acc.fileTypes \cup {ext} |->
                              IF e = ext THEN 1 ELSE acc.fileTypes[e]]
        large    == IF exceedsMaxSize(entry.size, maxFileSize)
                      THEN Append(acc.largeFiles,
                                  [path      |-> relPath,
                                   size      |-> formatBytes(entry.size),
                                   sizeBytes |-> entry.size])
                      ELSE acc.largeFiles
    IN [acc EXCEPT !.fileTypes   = types,
                   !.totalSize   = @ + entry.size,
                   !.binaryCount = IF isBinary THEN @ + 1 ELSE @,
                   !.largeFiles  = large]

RECURSIVE analyzeEntries(_, _, _, _, _)
RECURSIVE analyzeFilesRecursive(_, _, _, _, _)

analyzeEntries(entries, i, relativePath, maxFileSize, acc) ==
  IF acc.threw \/ i > Len(entries) THEN acc
  ELSE LET entry   == entries[i]
           relPath == Append(relativePath, entry.name)
       IN IF shouldSkipPath(entry.name)
            THEN analyzeEntries(entries, i + 1, relativePath, maxFileSize, acc)
          ELSE IF entry.isDir
            THEN analyzeEntries(entries, i + 1, relativePath, maxFileSize,
                   analyzeFilesRecursive(entry.children, entry.listable, relPath,
                                         maxFileSize, acc))
          ELSE analyzeEntries(entries, i + 1, relativePath, maxFileSize,
                              analyzeFile(entry, relPath, maxFileSize, acc))

analyzeFilesRecursive(entries, listable, relativePath, maxFileSize, acc) ==
  IF ~listable THEN [acc EXCEPT !.threw = TRUE]
  ELSE analyzeEntries(entries, 1, relativePath, maxFileSize, acc)

\* how many large files the report keeps
TopN == 10

\* RepositoryAnalyzer.analyzeFileMetrics
analyzeFileMetrics(root, opts) ==
  LET acc == analyzeFilesRecursive(root.children, root.listable, <<>>,
                                   opts.maxFileSize,
                                   [largeFiles |-> <<>>, fileTypes |-> <<>>,
                                    totalSize |-> 0, binaryCount |-> 0,
                                    threw |-> FALSE])
  IN [totalSize   |-> formatBytes(acc.totalSize),
      largeFiles  |-> slice0(sortDesc(acc.largeFiles, "sizeBytes"), TopN),
      fileTypes   |-> acc.fileTypes,
      binaryFiles |-> acc.binaryCount,
      threw       |-> acc.threw]

\* RepositoryAnalyzer.getEmptyFileMetrics
getEmptyFileMetrics ==
  [totalSize   |-> formatBytes(0),
   largeFiles  |-> <<>>,
   fileTypes   |-> <<>>,
   binaryFiles |-> 0,
   threw       |-> FALSE]

(***************************************************************************)
(* RepositoryAnalyzer.analyzeCommitMetrics                                 *)
(*                                                                         *)
(* A number with a fraction is kept exactly, as [num, den] with den > 0;   *)
(* averageCommitsPerDay, which the code rounds to two decimals, is kept in *)
(* hundredths.                                                             *)
(***************************************************************************)

\* git.show(...) rejected
ShowFails == -1

\* how many of the newest commits the largest-commit search looks at
LargestCommitWindow == 100

\* x >= p/q, for x = [num, den]
ratGeq(x, p, q) == x.num * q >= p * x.den

\* parseFloat(x.toFixed(2)), in hundredths
toFixed2(x) == (200 * x.num + x.den) \div (2 * x.den)

\* the bucket of the average rounded to two decimals
getCommitFrequencyRounded(avgPerDay) ==
  IF toFixed2(avgPerDay) >= 500 THEN "Very active"
  ELSE IF toFixed2(avgPerDay) >= 100 THEN "Active"
  ELSE IF toFixed2(avgPerDay) >= 50 THEN "Moderate"
  ELSE IF toFixed2(avgPerDay) >= 10 THEN "Low"
  ELSE "Very low"

\* RepositoryAnalyzer.getCommitFrequency
getCommitFrequency(avgPerDay) ==
  IF ratGeq(avgPerDay, 5, 1) THEN "Very active"
  ELSE IF ratGeq(avgPerDay, 1, 1) THEN "Active"
  ELSE IF ratGeq(avgPerDay, 1, 2) THEN "Moderate"
  ELSE IF ratGeq(avgPerDay, 1, 10) THEN "Low"
  ELSE "Very low"

\* Date.prototype.getDay: 0 is Sunday; day 0 of the clock is a Thursday
getDay(date) == ((date \div TicksPerDay) + 4) % 7

\* RepositoryAnalyzer.analyzeCommitPattern
analyzeCommitPattern(log) ==
  IF Len(log) < 10 THEN "Too few commits to analyze"
  ELSE LET recentCommits  == slice0(log, 30)
           weekdayCommits == Cardinality({i \in 1..Len(recentCommits) :
                                            /\ getDay(recentCommits[i].date) >= 1
                                            /\ getDay(recentCommits[i].date) <= 5})
       IN IF 10 * weekdayCommits > 7 * Len(recentCommits)
            THEN "Most active on weekdays"
          ELSE IF 10 * weekdayCommits < 3 * Len(recentCommits)
            THEN "Most active on weekends"
          ELSE "Consistent activity throughout week"

\* the loop with >= for >: a later commit with an equal count replaces
RECURSIVE findLargestCommitLastTie(_, _, _, _)
findLargestCommitLastTie(window, lo, hi, acc) ==
  IF lo > hi THEN acc
  ELSE IF lo = hi
    THEN LET commit == window[lo]
             called == [acc EXCEPT !.showCalls = Append(@, commit.hash)]
         IN IF commit.show = ShowFails
              THEN called
            ELSE IF commit.show >= acc.largestCommit.files /\ commit.show > 0
              THEN [called EXCEPT !.largestCommit =
                      [hash  |-> substring0(commit.hash, 7),
                       files |-> commit.show,
                       date  |-> formatDate(commit.date)]]
            ELSE called
  ELSE LET mid       == (lo + hi) \div 2
           firstHalf == findLargestCommitLastTie(window, lo, mid, acc)
       IN \* the first half is evaluated before the second is entered
          IF Len(firstHalf.showCalls) > 0
            THEN findLargestCommitLastTie(window, mid + 1, hi, firstHalf)
          ELSE firstHalf

\* the loop that finds the largest commit, over the commits lo..hi of the
\* window in their order (the first half, then the second);
\* acc = [largestCommit, showCalls]
RECURSIVE findLargestCommit(_, _, _, _)
findLargestCommit(window, lo, hi, acc) ==
  IF lo > hi THEN acc
  ELSE IF lo = hi
    THEN LET commit == window[lo]
             called == [acc EXCEPT !.showCalls = Append(@, commit.hash)]
         IN IF commit.show = ShowFails
              THEN called      \* caught, skipped
            ELSE IF commit.show > acc.largestCommit.files
              THEN [called EXCEPT !.largestCommit =
                      [hash  |-> substring0(commit.hash, 7),
                       files |-> commit.show,
                       date  |-> formatDate(commit.date)]]
            ELSE called
  ELSE LET mid       == (lo + hi) \div 2
           firstHalf == findLargestCommit(window, lo, mid, acc)
       IN \* the first half is evaluated before the second is entered
          IF Len(firstHalf.showCalls) > 0
            THEN findLargestCommit(window, mid + 1, hi, firstHalf)
          ELSE firstHalf

\* analyzeCommitMetrics after the zero-commit guard (lines 429-461);
\* `log.all[..]?.date || Date.now()` falls back to the clock
commitMetricsOf(log, clock) ==
  LET oldestCommit == IF Len(log) > 0 THEN log[Len(log)].date ELSE clock
      newestCommit == IF Len(log) > 0 THEN log[1].date ELSE clock
      \* daysDiff = max(1, (newest - oldest) / day), in ticks
      daysDiff     == Max(TicksPerDay, newestCommit - oldestCommit)
      averageCommitsPerDay == [num |-> Len(log) * TicksPerDay, den |-> daysDiff]
      found == findLargestCommit(slice0(log, LargestCommitWindow), 1,
                 Len(slice0(log, LargestCommitWindow)),
                 [largestCommit |-> [hash |-> EmptyString, files |-> 0,
                                     date |-> EmptyString],
                  showCalls     |-> <<>>])
  IN [averageCommitsPerDay |-> toFixed2(averageCommitsPerDay),
      commitFrequency      |-> getCommitFrequency(averageCommitsPerDay),
      largestCommit        |-> found.largestCommit,
      commitPattern        |-> analyzeCommitPattern(log),
      showCalls            |-> found.showCalls,
      divisions            |-> 2]

\* the collector without its zero-commit guard
analyzeCommitMetricsUnguarded(log, clock) == commitMetricsOf(log, clock)

\* RepositoryAnalyzer.analyzeCommitMetrics; showCalls are the git.show calls
\* made, divisions the divisions carried out
\* the history measured up to the clock instead of the newest commit
analyzeCommitMetricsToNow(log, clock) ==
  IF Len(log) = 0
    THEN [averageCommitsPerDay |-> 0,
          commitFrequency      |-> "No commits",
          largestCommit        |-> [hash |-> EmptyString, files |-> 0,
                                    date |-> EmptyString],
          commitPattern        |-> "No activity",
          showCalls            |-> <<>>,
          divisions            |-> 0]
  ELSE commitMetricsOf(<<[log[1] EXCEPT !.date = clock]>> \o Tail(log), clock)

analyzeCommitMetrics(log, clock) ==
  IF Len(log) = 0
    THEN [averageCommitsPerDay |-> 0,
          commitFrequency      |-> "No commits",
          largestCommit        |-> [hash |-> EmptyString, files |-> 0,
                                    date |-> EmptyString],
          commitPattern        |-> "No activity",
          showCalls            |-> <<>>,
          divisions            |-> 0]
  ELSE commitMetricsOf(log, clock)

(***************************************************************************)
(* RepositoryAnalyzer.analyzeBranchMetrics                                 *)
(*                                                                         *)
(* A branch name is the sequence of its pieces, with 'HEAD', '->' and      *)
(* 'remotes/origin/' pieces of their own wherever they occur in the name.  *)
(***************************************************************************)

isAlias(branchName) ==
  arrayIncludes(branchName, "HEAD") \/ arrayIncludes(branchName, "->")

\* branchName.replace('remotes/origin/', ''): the first occurrence goes
removeOriginPrefix(branchName) ==
  IF ~arrayIncludes(branchName, "remotes/origin/") THEN branchName
  ELSE LET k == CHOOSE i \in 1..Len(branchName) :
                  /\ branchName[i] = "remotes/origin/"
                  /\ \A j \in 1..(i - 1) : branchName[j] # "remotes/origin/"
       IN SubSeq(branchName, 1, k - 1) \o SubSeq(branchName, k + 1, Len(branchName))

\* the staleness test with >= for >
isStaleInclusive(age, staleBranchDays) == age >= staleBranchDays * TicksPerDay

\* stale from half the threshold on
isStaleFromHalf(age, staleBranchDays) == 2 * age > staleBranchDays * TicksPerDay

\* `daysOld > this.options.staleBranchDays`, the age in ticks
isStale(age, staleBranchDays) == age > staleBranchDays * TicksPerDay

\* the loop ended by the first lookup that fails
RECURSIVE classifyBranchesStopAtFailure(_, _, _, _, _)
classifyBranchesStopAtFailure(all, i, clock, staleBranchDays, acc) ==
  IF i > Len(all) THEN acc
  ELSE LET b == all[i]
       IN IF isAlias(b.name)
            THEN classifyBranchesStopAtFailure(all, i + 1, clock, staleBranchDays, acc)
          ELSE IF b.lookup.kind # "latest"
            THEN acc
          ELSE LET age == clock - b.lookup.date
               IN IF isStale(age, staleBranchDays)
                    THEN classifyBranchesStopAtFailure(all, i + 1, clock, staleBranchDays,
                           [acc EXCEPT !.staleBranches = Append(@,
                              [name       |-> removeOriginPrefix(b.name),
                               lastCommit |-> formatDate(b.lookup.date),
                               daysOld    |-> age \div TicksPerDay])])
                    ELSE classifyBranchesStopAtFailure(all, i + 1, clock, staleBranchDays,
                           [acc EXCEPT !.activeBranches = @ + 1])

\* the loop over branches.all from branch i on; acc = [staleBranches, activeBranches]
RECURSIVE classifyBranches(_, _, _, _, _)
classifyBranches(all, i, clock, staleBranchDays, acc) ==
  IF i > Len(all) THEN acc
  ELSE LET b == all[i]
       IN IF isAlias(b.name)
            THEN classifyBranches(all, i + 1, clock, staleBranchDays, acc)
          ELSE IF b.lookup.kind # "latest"     \* the lookup threw, or log.latest is null
            THEN classifyBranches(all, i + 1, clock, staleBranchDays, acc)
          ELSE LET age == clock - b.lookup.date     \* daysOld, in ticks
               IN IF isStale(age, staleBranchDays)
                    THEN classifyBranches(all, i + 1, clock, staleBranchDays,
                           [acc EXCEPT !.staleBranches = Append(@,
                              [name       |-> removeOriginPrefix(b.name),
                               lastCommit |-> formatDate(b.lookup.date),
                               daysOld    |-> age \div TicksPerDay])])
                    ELSE classifyBranches(all, i + 1, clock, staleBranchDays,
                           [acc EXCEPT !.activeBranches = @ + 1])

\* the stale list cut to 5
analyzeBranchMetricsTopFive(br, clock, opts) ==
  LET acc == classifyBranches(br.all, 1, clock, opts.staleBranchDays,
                              [staleBranches |-> <<>>, activeBranches |-> 0])
  IN [totalBranches  |-> Len(SelectSeq(br.all, LAMBDA b : ~isAlias(b.name))),
      staleBranches  |-> slice0(sortDesc(acc.staleBranches, "daysOld"), 5),
      activeBranches |-> acc.activeBranches,
      defaultBranch  |-> br.current]

analyzeBranchMetrics(br, clock, opts) ==
  LET acc == classifyBranches(br.all, 1, clock, opts.staleBranchDays,
                              [staleBranches |-> <<>>, activeBranches |-> 0])
  IN [totalBranches  |-> Len(SelectSeq(br.all, LAMBDA b : ~isAlias(b.name))),
      staleBranches  |-> slice0(sortDesc(acc.staleBranches, "daysOld"), TopN),
      activeBranches |-> acc.activeBranches,
      defaultBranch  |-> br.current]

(***************************************************************************)
(* RepositoryAnalyzer.analyzeBasicMetrics                                  *)
(***************************************************************************)

\* RepositoryAnalyzer.calculateRepoAge; years are kept in tenths
calculateRepoAge(startDate, clock) ==
  LET age == clock - startDate     \* days, in ticks
  IN IF age < 30 * TicksPerDay
       THEN [value |-> age \div TicksPerDay, unit |-> "days"]
     ELSE IF age < 365 * TicksPerDay
       THEN [value |-> age \div (30 * TicksPerDay), unit |-> "months"]
     ELSE [value |-> (20 * age + 365 * TicksPerDay) \div (2 * 365 * TicksPerDay),
           unit  |-> "years"]

analyzeBasicMetrics(log, br, root, clock) ==
  LET contributors == Cardinality({log[i].author_email : i \in 1..Len(log)})
      oldestDate   == IF Len(log) > 0 THEN log[Len(log)].date ELSE clock
      newestDate   == IF Len(log) > 0 THEN log[1].date ELSE clock
      fileCount    == countFiles(root.children, root.listable)
  IN [totalCommits   |-> Len(log),
      totalBranches  |-> Len(br.all),
      totalFiles     |-> fileCount.count,
      repositoryAge  |-> calculateRepoAge(oldestDate, clock),
      lastCommitDate |-> formatDate(newestDate),
      contributors   |-> contributors,
      threw          |-> fileCount.threw]

(***************************************************************************)
(* RepositoryAnalyzer: issues, recommendations, score, grade               *)
(***************************************************************************)

\* RepositoryAnalyzer.identifyIssues, one operator for each `if` of it; a
\* message is the sequence of its parts
\* a piece of a message: literal text, or a number put into a template
\* literal (its decimal digits)
Text(s) == [text |-> s]
Num(n) == [number |-> n]

secretsIssue(metrics) ==
  IF Len(metrics.security.potentialSecrets) > 0
    THEN << [severity |-> "critical",
             category |-> "Security",
             message  |-> <<Text("Found "),
                             Num(Len(metrics.security.potentialSecrets)),
                             Text(" potential secrets in code")>>,
             details  |-> <<Text("Secrets should never be committed to version control")>>] >>
    ELSE <<>>

\* sensitive files told as critical
sensitiveFilesIssueCritical(metrics) ==
  IF Len(metrics.security.sensitiveFiles) > 0
    THEN << [severity |-> "critical",
             category |-> "Security",
             message  |-> <<Text("Found "),
                             Num(Len(metrics.security.sensitiveFiles)),
                             Text(" sensitive files")>>,
             details  |-> <<Text("Files like .env should be in .gitignore")>>] >>
    ELSE <<>>

sensitiveFilesIssue(metrics) ==
  IF Len(metrics.security.sensitiveFiles) > 0
    THEN << [severity |-> "warning",
             category |-> "Security",
             message  |-> <<Text("Found "),
                             Num(Len(metrics.security.sensitiveFiles)),
                             Text(" sensitive files")>>,
             details  |-> <<Text("Files like .env should be in .gitignore")>>] >>
    ELSE <<>>

largeFilesIssue(metrics, opts) ==
  IF Len(metrics.files.largeFiles) > 0
    THEN << [severity |-> "warning",
             category |-> "Performance",
             message  |-> <<Text("Found "),
                             Num(Len(metrics.files.largeFiles)),
                             Text(" large files (>"),
                             Num(opts.maxFileSize),
                             Text("MB)")>>,
             details  |-> <<Text("Large files slow down cloning and operations")>>] >>
    ELSE <<>>

staleBranchesIssue(metrics, opts) ==
  IF Len(metrics.branches.staleBranches) > 5
    THEN << [severity |-> "info",
             category |-> "Maintenance",
             message  |-> <<Text("Found "),
                             Num(Len(metrics.branches.staleBranches)),
                             Text(" stale branches")>>,
             details  |-> <<Text("Branches inactive for >"),
                             Num(opts.staleBranchDays),
                             Text(" days")>>] >>
    ELSE <<>>

commitFrequencyIssue(metrics) ==
  IF metrics.commits.averageCommitsPerDay < 10        \* < 0.1, in hundredths
    THEN << [severity |-> "info",
             category |-> "Activity",
             message  |-> <<Text("Low commit frequency")>>,
             details  |-> <<Text("Repository appears to be inactive")>>] >>
    ELSE <<>>

\* identifyIssues with `else if` between the two security checks
identifyIssuesElseIf(metrics, opts) ==
  secretsIssue(metrics)
  \o (IF secretsIssue(metrics) # <<>> THEN <<>> ELSE sensitiveFilesIssue(metrics))
  \o largeFilesIssue(metrics, opts)
  \o staleBranchesIssue(metrics, opts)
  \o commitFrequencyIssue(metrics)

identifyIssues(metrics, opts) ==
  secretsIssue(metrics)
  \o sensitiveFilesIssue(metrics)
  \o largeFilesIssue(metrics, opts)
  \o staleBranchesIssue(metrics, opts)
  \o commitFrequencyIssue(metrics)

\* RepositoryAnalyzer.generateRecommendations, one operator for each `if`
secretsRecommendation(metrics) ==
  IF Len(metrics.security.potentialSecrets) > 0
    THEN << [priority    |-> "high",
             title       |-> "Remove secrets from code",
             description |-> <<"Secrets were detected in your repository">>,
             action      |-> "Use environment variables and add sensitive files to .gitignore"] >>
    ELSE <<>>

largeFilesRecommendation(metrics) ==
  IF Len(metrics.files.largeFiles) > 0
    THEN << [priority    |-> "medium",
             title       |-> "Reduce repository size",
             description |-> <<Len(metrics.files.largeFiles), " large files detected">>,
             action      |-> "Consider using Git LFS for large binary files"] >>
    ELSE <<>>

staleBranchesRecommendation(metrics) ==
  IF Len(metrics.branches.staleBranches) > 5
    THEN << [priority    |-> "low",
             title       |-> "Clean up stale branches",
             description |-> <<Len(metrics.branches.staleBranches),
                               " branches haven't been updated recently">>,
             action      |-> "Delete merged or abandoned branches"] >>
    ELSE <<>>

collaborationRecommendation(metrics) ==
  IF metrics.basic.contributors < 2
    THEN << [priority    |-> "low",
             title       |-> "Encourage collaboration",
             description |-> <<"Repository has limited contributors">>,
             action      |-> "Add CONTRIBUTING.md and welcome new contributors"] >>
    ELSE <<>>

\* generateRecommendations that gives the general advice only to a
\* repository with no other recommendation
generateRecommendationsFallback(metrics) ==
  LET specific == secretsRecommendation(metrics)
                  \o largeFilesRecommendation(metrics)
                  \o staleBranchesRecommendation(metrics)
  IN specific \o (IF specific = <<>> THEN collaborationRecommendation(metrics)
                  ELSE <<>>)

generateRecommendations(metrics) ==
  secretsRecommendation(metrics)
  \o largeFilesRecommendation(metrics)
  \o staleBranchesRecommendation(metrics)
  \o collaborationRecommendation(metrics)

\* issues.filter((i) => i.severity === s).length
countSeverity(issues, s) == Len(SelectSeq(issues, LAMBDA i : i.severity = s))

\* the raw score with the bonuses in an else-if chain: at most one is granted
rawHealthScoreOneBonus(metrics, issues) ==
  100 - countSeverity(issues, "critical") * 15
      - countSeverity(issues, "warning") * 5
      - countSeverity(issues, "info") * 2
      + (IF metrics.commits.averageCommitsPerDay > 100 THEN 5
         ELSE IF metrics.basic.contributors > 3 THEN 5
         ELSE IF Len(metrics.branches.staleBranches) = 0 THEN 5
         ELSE 0)

\* the score before Math.max(0, Math.min(100, score))
rawHealthScore(metrics, issues) ==
  100 - countSeverity(issues, "critical") * 15
      - countSeverity(issues, "warning") * 5
      - countSeverity(issues, "info") * 2
      + (IF metrics.commits.averageCommitsPerDay > 100 THEN 5 ELSE 0)    \* > 1
      + (IF metrics.basic.contributors > 3 THEN 5 ELSE 0)
      + (IF Len(metrics.branches.staleBranches) = 0 THEN 5 ELSE 0)

\* calculateHealthScore without the clamp
calculateHealthScoreUnclamped(metrics, issues) == rawHealthScore(metrics, issues)

\* RepositoryAnalyzer.calculateHealthScore
calculateHealthScore(metrics, issues) ==
  Max(0, Min(100, rawHealthScore(metrics, issues)))

\* calculateGrade (utils/format)
calculateGrade(score) ==
  IF score >= 90 THEN "A"
  ELSE IF score >= 80 THEN "B"
  ELSE IF score >= 70 THEN "C"
  ELSE IF score >= 60 THEN "D"
  ELSE "F"

\* analyze that grades the score as it is before the issues are deducted
analyzeGradeBeforeIssues(metrics, opts) ==
  LET issues          == identifyIssues(metrics, opts)
      recommendations == generateRecommendations(metrics)
      score           == calculateHealthScore(metrics, issues)
      grade           == calculateGrade(calculateHealthScore(metrics, <<>>))
  IN [score           |-> score,
      grade           |-> grade,
      issues          |-> issues,
      metrics         |-> metrics,
      recommendations |-> recommendations]

\* RepositoryAnalyzer.analyze, from the collected metrics on
analyze(metrics, opts) ==
  LET issues          == identifyIssues(metrics, opts)
      recommendations == generateRecommendations(metrics)
      score           == calculateHealthScore(metrics, issues)
      grade           == calculateGrade(score)
  IN [score           |-> score,
      grade           |-> grade,
      issues          |-> issues,
      metrics         |-> metrics,
      recommendations |-> recommendations]

(***************************************************************************)
(* The repositories the operations are run on.                             *)
(***************************************************************************)

Digits == <<"0", "1", "2", "3", "4", "5", "6", "7", "8", "9">>

\* a matched text of n characters
Raw(n) == [i \in 1..n |-> Digits[(i % 10) + 1]]

Rule(name) == CHOOSE k \in 1..Len(SECRET_PATTERNS) : SECRET_PATTERNS[k].name = name

\* one match of the named rule, n characters long
Hit(name, n) == [rule |-> Rule(name), raw |-> Raw(n)]

File(name, size, content) ==
  [name |-> name, isDir |-> FALSE, listable |-> TRUE, children |-> <<>>,
   size |-> size, readable |-> TRUE, statable |-> TRUE, content |-> content]

\* a file that is listed but can be neither read nor stat'ed (a dangling link)
BrokenFile(name, content) ==
  [name |-> name, isDir |-> FALSE, listable |-> TRUE, children |-> <<>>,
   size |-> 0, readable |-> FALSE, statable |-> FALSE, content |-> content]

Dir(name, children) ==
  [name |-> name, isDir |-> TRUE, listable |-> TRUE, children |-> children,
   size |-> 0, readable |-> FALSE, statable |-> TRUE, content |-> <<>>]

\* a directory that readdirSync cannot list
LockedDir(name, children) ==
  [name |-> name, isDir |-> TRUE, listable |-> FALSE, children |-> children,
   size |-> 0, readable |-> FALSE, statable |-> TRUE, content |-> <<>>]

Root(children) == [children |-> children, listable |-> TRUE]

NoHits == <<>>

ConfigJs ==
  File(<<"c","o","n","f","i","g",".","j","s">>, 40,
       << <<Hit(<<"AWS", "Access", "Key">>, 20)>> >>)

DotEnv == File(<<".","e","n","v">>, 17, << NoHits >>)

CredentialsJson ==
  File(<<"c","r","e","d","e","n","t","i","a","l","s",".","j","s","o","n">>, 2,
       << NoHits >>)

ProdEnv ==
  File(<<"p","r","o","d",".","e","n","v">>, 30,
       << NoHits, <<Hit(<<"Password", "in", "Code">>, 24)>> >>)

DotEnvBak == File(<<".","e","n","v",".","b","a","k">>, 17, << NoHits >>)

KeyPem ==
  File(<<"k","e","y",".","p","e","m">>, 1700,
       << <<Hit(<<"Private", "Key">>, 31)>>, NoHits >>)

DbJs ==
  File(<<"d","b",".","j","s">>, 300,
       << <<Hit(<<"MongoDB", "Connection", "String">>, ExcerptLen),
            Hit(<<"AWS", "Access", "Key">>, 20),
            Hit(<<"MongoDB", "Connection", "String">>, ExcerptLen + 1)>>,
          NoHits,
          <<Hit(<<"Private", "Key">>, 27),
            Hit(<<"PostgreSQL", "Connection", "String">>, ExcerptLen + 10)>> >>)

LibSo ==
  File(<<"l","i","b",".","s","o">>, 5000,
       << <<Hit(<<"AWS", "Access", "Key">>, 20)>> >>)

\* a dangling link named .npmrc
Dangling ==
  BrokenFile(<<".","n","p","m","r","c">>,
             << <<Hit(<<"AWS", "Access", "Key">>, 20)>> >>)

\* a regular file that carries the name of an output directory
OutFile == File(<<"o","u","t">>, 25, << <<Hit(<<"Slack", "Token">>, 15)>> >>)

SecretJs ==
  File(<<"s","e","c","r","e","t",".","j","s">>, 20,
       << <<Hit(<<"AWS", "Access", "Key">>, 20)>> >>)

IdRsa ==
  File(<<"i","d","_","r","s","a">>, 1700,
       << <<Hit(<<"Private", "Key">>, 35)>> >>)

NodeModules ==
  Dir(<<"n","o","d","e","_","m","o","d","u","l","e","s">>, <<SecretJs, DotEnv>>)

BuildDir == Dir(<<"b","u","i","l","d">>, <<CredentialsJson, KeyPem>>)

OutDir == Dir(<<"o","u","t">>, <<CredentialsJson, KeyPem>>)

SrcDir ==
  Dir(<<"s","r","c">>, <<SecretJs, NodeModules, IdRsa,
                         Dir(<<"l","i","b">>, <<DotEnv, OutDir>>)>>)

Vault == LockedDir(<<"v","a","u","l","t">>, <<DotEnv, SecretJs>>)

BigZip == File(<<"b","i","g",".","z","i","p">>, BytesPerMB + 1, << NoHits >>)

\* files at one and at two megabytes, to the byte and one byte above
ExactMB == File(<<"o","n","e",".","d","a","t">>, BytesPerMB, << NoHits >>)

TwoMB == File(<<"t","w","o",".","d","a","t">>, 2 * BytesPerMB, << NoHits >>)

TwoMBPlus ==
  File(<<"t","w","o","p",".","i","s","o">>, 2 * BytesPerMB + 1, << NoHits >>)

\* the i-th of the images below: above one megabyte, sizes in no order, the
\* first and the last of the same size
Image(i) ==
  File(<<"i","m","g", Digits[(i \div 10) + 1], Digits[(i % 10) + 1],
         ".","p","n","g">>,
       BytesPerMB + 1 + ((7 * i) % 11), << NoHits >>)

\* a directory with more large files than the report keeps
Assets == Dir(<<"a","s","s","e","t","s">>, [i \in 1..(TopN + 2) |-> Image(i)])

\* a large file below a directory the analyzer skips
DistDir == Dir(<<"d","i","s","t">>, <<BigZip, TwoMBPlus>>)

\* the subsequences of `candidates` of at most n entries
Selections(candidates, n) ==
  { SelectSeqIdx : SelectSeqIdx \in
      { [i \in 1..Cardinality(S) |->
           candidates[CHOOSE k \in S : Cardinality({j \in S : j < k}) = i - 1]]
        : S \in {T \in SUBSET (1..Len(candidates)) : Cardinality(T) <= n} } }

ScanCandidates ==
  <<ConfigJs, DotEnv, CredentialsJson, ProdEnv, DotEnvBak, KeyPem, DbJs, LibSo,
    Dangling, OutFile, NodeModules, BuildDir, SrcDir, Vault>>

\* entries of the root directory, at most
MaxRootEntries == 3

ScanTrees == { Root(sel) : sel \in Selections(ScanCandidates, MaxRootEntries) }

AnalysisCandidates == <<ConfigJs, DotEnv, BigZip, Vault, Dangling>>

MaxAnalysisEntries == 3

AnalysisTrees ==
  { Root(sel) : sel \in Selections(AnalysisCandidates, MaxAnalysisEntries) }

\* Date.now() of the run
Clock == 100 * TicksPerDay

Hash(i) == <<"c", "0", "f", "f", "e", "e", Digits[(i % 10) + 1], "a", "b">>

Email(i) == <<"dev", Digits[(i % 10) + 1], "@example.org">>

\* what git.show answers for the i-th newest commit: the number of files it
\* names, or a failure
ShowResult(i) == IF i % 3 = 2 THEN ShowFails ELSE (2 * i) % 5

\* a history of n commits by `authors` authors that spans `span` ticks:
\* the newest commit a day ago, the others `span` ticks before it
MakeLog(n, span, authors) ==
  [i \in 1..n |->
     [hash         |-> Hash(i),
      author_email |-> Email(((i - 1) % authors) + 1),
      date         |-> IF i = 1 THEN Clock - TicksPerDay
                       ELSE Clock - TicksPerDay - span,
      show         |-> ShowResult(i)]]

\* commits in a history, at most
MaxCommits == 4

SpanChoices ==
  { 0,
    2 * MaxCommits * TicksPerDay,
    10 * MaxCommits * TicksPerDay + TicksPerDay,
    12 * MaxCommits * TicksPerDay }

Logs ==
  { <<>>, MakeLog(1, 0, 1) }
  \cup { MakeLog(MaxCommits, span, authors) :
           span \in SpanChoices, authors \in 1..MaxCommits }

\* the stale threshold the branch ages are laid around, in days
BaseStaleDays == 2

\* stale branches in a repository, at most
MaxStale == 6

Latest(date) == [kind |-> "latest", date |-> date]

\* n branches whose last commits are 1, 2, ... n ticks older than
\* BaseStaleDays days; with `extras`, also the alias of the remote HEAD, a
\* branch exactly BaseStaleDays days old, one whose lookup throws and one
\* whose lookup finds no commit
MakeBranches(n, extras) ==
  [all |->
     (IF extras
        THEN << [name   |-> <<"remotes/origin/", "HEAD", " ", "->", " origin/main">>,
                 lookup |-> [kind |-> "throws", date |-> 0]],
                [name   |-> <<"main">>,
                 lookup |-> Latest(Clock - BaseStaleDays * TicksPerDay)],
                [name   |-> <<"remotes/origin/", "gone">>,
                 lookup |-> [kind |-> "throws", date |-> 0]],
                [name   |-> <<"orphan">>,
                 lookup |-> [kind |-> "none", date |-> 0]] >>
        ELSE <<>>)
     \o [i \in 1..n |->
           [name   |-> IF i % 2 = 0
                         THEN <<"remotes/origin/", "topic",
                                Digits[((i \div 10) % 10) + 1], Digits[(i % 10) + 1]>>
                       ELSE <<"topic",
                              Digits[((i \div 10) % 10) + 1], Digits[(i % 10) + 1]>>,
            lookup |-> Latest(Clock - BaseStaleDays * TicksPerDay - i)]],
   current |-> <<"main">>]

BranchLists ==
  { MakeBranches(n, extras) : n \in {0, 1, MaxStale}, extras \in BOOLEAN }

OptionChoices ==
  { [skipSecurity |-> FALSE, skipFiles |-> FALSE, maxFileSize |-> 1,
     staleBranchDays |-> BaseStaleDays],
    [skipSecurity |-> TRUE, skipFiles |-> TRUE, maxFileSize |-> 1,
     staleBranchDays |-> BaseStaleDays],
    [skipSecurity |-> FALSE, skipFiles |-> FALSE, maxFileSize |-> 1,
     staleBranchDays |-> BaseStaleDays + 1] }

(***************************************************************************)
(* analyze(): collectMetrics runs the four collectors under Promise.all,   *)
(* then the security scan; analyze derives the result from the metrics.    *)
(***************************************************************************)

Collectors == {"basic", "commits", "files", "branches"}

Init ==
  /\ tree \in AnalysisTrees
  /\ gitLog \in Logs
  /\ gitBranches \in BranchLists
  /\ now = Clock
  /\ options \in OptionChoices
  /\ pc = "collecting"
  /\ finished = {}
  /\ basic = NoValue
  /\ commits = NoValue
  /\ files = NoValue
  /\ branches = NoValue
  /\ security = NoValue
  /\ health = NoValue
  /\ firstRun = NoValue
  /\ invocation = DirectCall
  /\ exitCode = <<>>

\* a collector that has settled has rejected
Rejected(c) ==
  /\ c \in finished
  /\ \/ c = "basic" /\ basic.threw
     \/ c = "files" /\ files.threw

RunBasicMetrics ==
  /\ pc = "collecting"
  /\ invocation.root = "valid"
  /\ "basic" \notin finished
  /\ basic' = analyzeBasicMetrics(gitLog, gitBranches, tree, now)
  /\ finished' = finished \cup {"basic"}
  /\ UNCHANGED <<repository, firstRun, invocation, exitCode, pc, commits, files, branches,
                 security, health>>

RunCommitMetrics ==
  /\ pc = "collecting"
  /\ invocation.root = "valid"
  /\ "commits" \notin finished
  /\ commits' = analyzeCommitMetrics(gitLog, now)
  /\ finished' = finished \cup {"commits"}
  /\ UNCHANGED <<repository, firstRun, invocation, exitCode, pc, basic, files, branches, security, health>>

RunFileMetrics ==
  /\ pc = "collecting"
  /\ invocation.root = "valid"
  /\ "files" \notin finished
  /\ files' = IF options.skipFiles THEN getEmptyFileMetrics
              ELSE analyzeFileMetrics(tree, options)
  /\ finished' = finished \cup {"files"}
  /\ UNCHANGED <<repository, firstRun, invocation, exitCode, pc, basic, commits, branches, security, health>>

RunBranchMetrics ==
  /\ pc = "collecting"
  /\ invocation.root = "valid"
  /\ "branches" \notin finished
  /\ branches' = analyzeBranchMetrics(gitBranches, now, options)
  /\ finished' = finished \cup {"branches"}
  /\ UNCHANGED <<repository, firstRun, invocation, exitCode, pc, basic, commits, files, security, health>>

\* Promise.all rejects as soon as one collector has rejected
CollectRejects ==
  /\ pc = "collecting"
  /\ \E c \in Collectors : Rejected(c)
  /\ pc' = "rejected"
  /\ UNCHANGED <<repository, firstRun, invocation, exitCode, finished, basic, commits, files, branches,
                 security, health>>

emptySecurityMetrics ==
  [potentialSecrets |-> <<>>, sensitiveFiles |-> <<>>, exposedKeys |-> <<>>,
   threw |-> FALSE, readdirCalls |-> <<>>, readCalls |-> <<>>]

\* the scan started without waiting for Promise.all
RunSecurityScanUnjoined ==
  /\ pc = "collecting"
  /\ ~\E c \in Collectors : Rejected(c)
  /\ security' = IF options.skipSecurity THEN emptySecurityMetrics ELSE scan(tree)
  /\ pc' = IF security'.threw THEN "rejected" ELSE "collected"
  /\ UNCHANGED <<repository, firstRun, invocation, exitCode, finished, basic, commits, files, branches, health>>

\* collectMetrics after Promise.all has resolved
RunSecurityScan ==
  /\ pc = "collecting"
  /\ finished = Collectors
  /\ ~\E c \in Collectors : Rejected(c)
  /\ security' = IF options.skipSecurity THEN emptySecurityMetrics ELSE scan(tree)
  /\ pc' = IF security'.threw THEN "rejected" ELSE "collected"
  /\ UNCHANGED <<repository, firstRun, invocation, exitCode, finished, basic, commits, files, branches, health>>

collectedMetrics ==
  [basic |-> basic, commits |-> commits, files |-> files,
   security |-> security, branches |-> branches]

\* analyze(), once collectMetrics has resolved
Analyze ==
  /\ pc = "collected"
  /\ health' = analyze(collectedMetrics, options)
  /\ pc' = "returned"
  /\ UNCHANGED <<repository, firstRun, invocation, exitCode, finished, basic, commits, files, branches, security>>

Next ==
  \/ RunBasicMetrics
  \/ RunCommitMetrics
  \/ RunFileMetrics
  \/ RunBranchMetrics
  \/ CollectRejects
  \/ RunSecurityScan
  \/ Analyze

Spec == Init /\ [][Next]_vars

(***************************************************************************)
(* analyze() called a second time on the same analyzer, the repository     *)
(* unchanged, at the same reading of the clock or a day later.             *)
(***************************************************************************)

\* entries of the root directory of a repository analyzed twice, at most
MaxTwiceEntries == 2

TwiceTrees ==
  { Root(sel) : sel \in Selections(<<ConfigJs, KeyPem, DotEnv, Dangling>>, MaxTwiceEntries) }

TwiceLogs ==
  { <<>>, MakeLog(1, 0, 1), MakeLog(MaxCommits, 2 * MaxCommits * TicksPerDay, 2) }

InitTwice ==
  /\ tree \in TwiceTrees
  /\ gitLog \in TwiceLogs
  /\ gitBranches \in BranchLists
  /\ now = Clock
  /\ options \in OptionChoices
  /\ pc = "collecting"
  /\ finished = {}
  /\ basic = NoValue
  /\ commits = NoValue
  /\ files = NoValue
  /\ branches = NoValue
  /\ security = NoValue
  /\ health = NoValue
  /\ firstRun = NoValue
  /\ invocation = DirectCall
  /\ exitCode = <<>>

\* the caller keeps the result and calls analyze() again
AnalyzeAgain ==
  /\ pc = "returned"
  /\ firstRun = NoValue
  /\ firstRun' = [clock |-> now, health |-> health]
  /\ now' \in {now, now + TicksPerDay}
  /\ pc' = "collecting"
  /\ finished' = {}
  /\ basic' = NoValue
  /\ commits' = NoValue
  /\ files' = NoValue
  /\ branches' = NoValue
  /\ security' = NoValue
  /\ health' = NoValue
  /\ UNCHANGED <<tree, gitLog, gitBranches, options, invocation, exitCode>>

NextTwice ==
  \/ RunBasicMetrics
  \/ RunCommitMetrics
  \/ RunFileMetrics
  \/ RunBranchMetrics
  \/ CollectRejects
  \/ RunSecurityScan
  \/ Analyze
  \/ AnalyzeAgain

SpecTwice == InitTwice /\ [][NextTwice]_vars

(***************************************************************************)
(* SecurityScanner.scan() called on a directory, as the scanner's tests    *)
(* call it.                                                                *)
(***************************************************************************)

InitScan ==
  /\ tree \in ScanTrees
  /\ gitLog = <<>>
  /\ gitBranches = MakeBranches(0, FALSE)
  /\ now = Clock
  /\ options = [skipSecurity |-> FALSE, skipFiles |-> TRUE, maxFileSize |-> 1,
                staleBranchDays |-> BaseStaleDays]
  /\ pc = "scan"
  /\ finished = {}
  /\ basic = NoValue
  /\ commits = NoValue
  /\ files = NoValue
  /\ branches = NoValue
  /\ security = NoValue
  /\ health = NoValue
  /\ firstRun = NoValue
  /\ invocation = DirectCall
  /\ exitCode = <<>>

ScannerScan ==
  /\ pc = "scan"
  /\ security' = scan(tree)
  /\ pc' = IF security'.threw THEN "scanRejected" ELSE "scanned"
  /\ UNCHANGED <<repository, firstRun, invocation, exitCode, finished, basic, commits, files, branches, health>>

NextScan == ScannerScan

SpecScan == InitScan /\ [][NextScan]_vars

(***************************************************************************)
(* analyzeFileMetrics() and analyzeBranchMetrics() on their own, on trees   *)
(* with many large files and branch lists longer than the report keeps.    *)
(***************************************************************************)

FileCandidates ==
  <<ConfigJs, BigZip, ExactMB, TwoMB, TwoMBPlus, Assets, DistDir, Vault, Dangling>>

FileTrees == { Root(sel) : sel \in Selections(FileCandidates, MaxRootEntries) }

LongBranchLists ==
  { MakeBranches(n, extras) : n \in {1, MaxStale, TopN + 2}, extras \in BOOLEAN }

CollectOptions ==
  { [skipSecurity |-> TRUE, skipFiles |-> FALSE, maxFileSize |-> m,
     staleBranchDays |-> d] : m \in {1, 2}, d \in {BaseStaleDays, BaseStaleDays + 1} }

InitCollect ==
  /\ tree \in FileTrees
  /\ gitLog = <<>>
  /\ gitBranches \in LongBranchLists
  /\ now = Clock
  /\ options \in CollectOptions
  /\ pc = "collector"
  /\ finished = {}
  /\ basic = NoValue
  /\ commits = NoValue
  /\ files = NoValue
  /\ branches = NoValue
  /\ security = NoValue
  /\ health = NoValue
  /\ firstRun = NoValue
  /\ invocation = DirectCall
  /\ exitCode = <<>>

CallAnalyzeFileMetrics ==
  /\ pc = "collector"
  /\ "files" \notin finished
  /\ files' = analyzeFileMetrics(tree, options)
  /\ finished' = finished \cup {"files"}
  /\ UNCHANGED <<repository, firstRun, invocation, exitCode, pc, basic, commits, branches, security, health>>

CallAnalyzeBranchMetrics ==
  /\ pc = "collector"
  /\ "branches" \notin finished
  /\ branches' = analyzeBranchMetrics(gitBranches, now, options)
  /\ finished' = finished \cup {"branches"}
  /\ UNCHANGED <<repository, firstRun, invocation, exitCode, pc, basic, commits, files, security, health>>

NextCollect == CallAnalyzeFileMetrics \/ CallAnalyzeBranchMetrics

SpecCollect == InitCollect /\ [][NextCollect]_vars

(***************************************************************************)
(* analyzeCommitMetrics called on its own, on short histories around the   *)
(* bounds of the frequency buckets and on histories longer than the        *)
(* largest-commit search looks at.                                         *)
(***************************************************************************)

\* commits in a short history, at most
MaxBurst == 6

HashOf(i) ==
  <<"a", "b", Digits[((i \div 100) % 10) + 1], Digits[((i \div 10) % 10) + 1],
    Digits[(i % 10) + 1], "c", "d", "e", "f">>

\* what git.show answers for the i-th newest commit, in a history of a kind
ShowOf(kind, i) ==
  CASE kind = "mixed" -> ShowResult(i)
    [] kind = "fails" -> ShowFails
    [] kind = "empty" -> 0
    [] kind = "tied"  -> IF i > LargestCommitWindow THEN 9
                         ELSE IF i % 3 = 2 THEN ShowFails
                         ELSE IF i % 2 = 0 THEN 4
                         ELSE 1

\* n commits, the newest a day back and the others `span` ticks before it
History(n, span, kind) ==
  [i \in 1..n |->
     [hash         |-> HashOf(i),
      author_email |-> Email(1),
      date         |-> IF i = 1 THEN Clock - TicksPerDay
                       ELSE Clock - TicksPerDay - span,
      show         |-> ShowOf(kind, i)]]

CommitLogs ==
  LET kinds == {"mixed", "fails", "empty", "tied"}
      spans == {0, TicksPerDay \div 2, TicksPerDay, 2 * TicksPerDay,
                10 * TicksPerDay, 40 * TicksPerDay, 41 * TicksPerDay}
  IN { History(n, span, kind) : n \in 1..MaxBurst, span \in spans, kind \in kinds }
     \cup { History(n, span, kind) :
              n \in (LargestCommitWindow - 1)..(LargestCommitWindow + 2),
              span \in {0, LargestCommitWindow * TicksPerDay - 1},
              kind \in kinds }

InitCommits ==
  /\ tree = Root(<<>>)
  /\ gitLog \in CommitLogs
  /\ gitBranches = MakeBranches(1, FALSE)
  /\ now = Clock
  /\ options \in CollectOptions
  /\ pc = "collector"
  /\ finished = {}
  /\ basic = NoValue
  /\ commits = NoValue
  /\ files = NoValue
  /\ branches = NoValue
  /\ security = NoValue
  /\ health = NoValue
  /\ firstRun = NoValue
  /\ invocation = DirectCall
  /\ exitCode = <<>>

CallAnalyzeCommitMetrics ==
  /\ pc = "collector"
  /\ "commits" \notin finished
  /\ commits' = analyzeCommitMetrics(gitLog, now)
  /\ finished' = finished \cup {"commits"}
  /\ UNCHANGED <<repository, firstRun, invocation, exitCode, pc, basic, files, branches, security, health>>

NextCommits == CallAnalyzeCommitMetrics

SpecCommits == InitCommits /\ [][NextCommits]_vars

(***************************************************************************)
(* The three walks of the working tree, each called on its own: countFiles *)
(* (within analyzeBasicMetrics), analyzeFilesRecursive and the scanner.    *)
(***************************************************************************)

\* entries of the root directory, at most
MaxWalkEntries == 2

WalkTrees ==
  { Root(sel) : sel \in Selections(<<ConfigJs, DotEnv, OutDir, OutFile, BuildDir,
                                      NodeModules, SrcDir>>, MaxWalkEntries) }

InitWalks ==
  /\ tree \in WalkTrees
  /\ gitLog = MakeLog(1, 0, 1)
  /\ gitBranches = MakeBranches(1, FALSE)
  /\ now = Clock
  /\ options \in CollectOptions
  /\ pc = "collector"
  /\ finished = {}
  /\ basic = NoValue
  /\ commits = NoValue
  /\ files = NoValue
  /\ branches = NoValue
  /\ security = NoValue
  /\ health = NoValue
  /\ firstRun = NoValue
  /\ invocation = DirectCall
  /\ exitCode = <<>>

CallAnalyzeBasicMetrics ==
  /\ pc = "collector"
  /\ "basic" \notin finished
  /\ basic' = analyzeBasicMetrics(gitLog, gitBranches, tree, now)
  /\ finished' = finished \cup {"basic"}
  /\ UNCHANGED <<repository, firstRun, invocation, exitCode, pc, commits, files, branches, security, health>>

CallScan ==
  /\ pc = "collector"
  /\ "security" \notin finished
  /\ security' = scan(tree)
  /\ finished' = finished \cup {"security"}
  /\ UNCHANGED <<repository, firstRun, invocation, exitCode, pc, basic, commits, files, branches, health>>

NextWalks == CallAnalyzeBasicMetrics \/ CallAnalyzeFileMetrics \/ CallScan

SpecWalks == InitWalks /\ [][NextWalks]_vars

(***************************************************************************)
(* The entry paths (cli.ts): the analyze command, the scan command and a   *)
(* direct call of analyze(), on a path that holds a git repository         *)
(* ("valid"), a directory without .git ("noGit") or nothing ("missing").   *)
(***************************************************************************)

\* entries of the root directory, at most
MaxCliEntries == 2

CliTrees ==
  { Root(sel) : sel \in Selections(<<ConfigJs, KeyPem, DotEnv, Dangling>>, MaxCliEntries) }

\* the options the analyze command builds from its flags
AnalyzeCommandOptions ==
  { [skipSecurity |-> s, skipFiles |-> FALSE, maxFileSize |-> 10,
     staleBranchDays |-> 90] : s \in BOOLEAN }

\* the options of the scan command, completed by the constructor's defaults
ScanCommandOptions ==
  { [skipSecurity |-> FALSE, skipFiles |-> TRUE, maxFileSize |-> 10,
     staleBranchDays |-> 90] }

InitCli ==
  /\ invocation \in [command : {"analyze", "scan", "direct"},
                     root    : {"valid", "noGit", "missing"}]
  /\ tree \in CliTrees
  /\ gitLog \in { MakeLog(1, 0, 1), MakeLog(MaxCommits, 0, MaxCommits) }
  /\ gitBranches = MakeBranches(1, TRUE)
  /\ now = Clock
  /\ options \in IF invocation.command = "scan" THEN ScanCommandOptions
                 ELSE AnalyzeCommandOptions
  /\ pc = "invoked"
  /\ firstRun = NoValue
  /\ exitCode = <<>>
  /\ finished = {}
  /\ basic = NoValue
  /\ commits = NoValue
  /\ files = NoValue
  /\ branches = NoValue
  /\ security = NoValue
  /\ health = NoValue

\* the analyze command's checks of the path (cli.ts lines 36-45)
ValidatePath ==
  /\ pc = "invoked"
  /\ invocation.command = "analyze"
  /\ IF invocation.root = "valid"
       THEN pc' = "validated" /\ exitCode' = exitCode
       ELSE pc' = "exited" /\ exitCode' = <<1>>
  /\ UNCHANGED <<repository, firstRun, invocation, finished, basic, commits, files,
                 branches, security, health>>

\* new RepositoryAnalyzer(repoPath, ...) and the call of analyze(), up to
\* Promise.all having called the four collectors. simpleGit(repoPath) is the
\* library's: it may refuse a path that is no directory.
ConstructAndAnalyze ==
  /\ \/ pc = "validated"
     \/ pc = "invoked" /\ invocation.command # "analyze"
  /\ \E refused \in IF invocation.root = "missing" THEN BOOLEAN ELSE {FALSE} :
       pc' = IF refused THEN "threw" ELSE "collecting"
  /\ UNCHANGED <<repository, firstRun, invocation, exitCode, finished, basic, commits,
                 files, branches, security, health>>

\* git.log() and git.branch() fail outside a repository, readdirSync on a
\* path that is no directory: the collectors reject, and Promise.all with them
CollectorsFail ==
  /\ pc = "collecting"
  /\ invocation.root # "valid"
  /\ pc' = "rejected"
  /\ UNCHANGED <<repository, firstRun, invocation, exitCode, finished, basic, commits,
                 files, branches, security, health>>

\* the analyze command after analyze() has returned (cli.ts lines 58-76)
AnalyzeCommandExits ==
  /\ pc = "returned"
  /\ invocation.command = "analyze"
  /\ exitCode' = << IF countSeverity(health.issues, "critical") > 0 THEN 1 ELSE 0 >>
  /\ pc' = "exited"
  /\ UNCHANGED <<repository, firstRun, invocation, finished, basic, commits, files,
                 branches, security, health>>

\* the scan command after analyze() has returned (cli.ts lines 102-148)
ScanCommandExits ==
  /\ pc = "returned"
  /\ invocation.command = "scan"
  /\ LET totalIssues == Len(health.metrics.security.potentialSecrets)
                        + Len(health.metrics.security.sensitiveFiles)
                        + Len(health.metrics.security.exposedKeys)
     IN exitCode' = << IF totalIssues = 0 THEN 0 ELSE 1 >>
  /\ pc' = "exited"
  /\ UNCHANGED <<repository, firstRun, invocation, finished, basic, commits, files,
                 branches, security, health>>

\* the catch blocks of the two commands (cli.ts lines 77-84 and 149-153)
CommandFails ==
  /\ pc \in {"threw", "rejected"}
  /\ invocation.command \in {"analyze", "scan"}
  /\ exitCode' = <<1>>
  /\ pc' = "exited"
  /\ UNCHANGED <<repository, firstRun, invocation, finished, basic, commits, files,
                 branches, security, health>>

NextCli ==
  \/ ValidatePath
  \/ ConstructAndAnalyze
  \/ CollectorsFail
  \/ RunBasicMetrics
  \/ RunCommitMetrics
  \/ RunFileMetrics
  \/ RunBranchMetrics
  \/ CollectRejects
  \/ RunSecurityScan
  \/ Analyze
  \/ AnalyzeCommandExits
  \/ ScanCommandExits
  \/ CommandFails

SpecCli == InitCli /\ [][NextCli]_vars

(***************************************************************************)
(* Properties of analyze() (specification Spec)                            *)
(***************************************************************************)

\* <<x>> when the condition holds, nothing otherwise
When(cond, x) == IF cond THEN <<x>> ELSE <<>>

\* the number of issues of the result that carry severity s
IssuesOfSeverity(s) ==
  Cardinality({i \in 1..Len(health.issues) : health.issues[i].severity = s})

Bonus(cond) == IF cond THEN 5 ELSE 0

\* C1: the score in the result of analyze() is an integer from 0 to 100,
\* whatever the metrics collected and the issues derived from them are.
ScoreInRange == pc = "returned" => health.score \in 0..100

\* a result whose bonuses lift the raw score above 100
ScoreCappedAtHundred ==
  /\ pc = "returned"
  /\ 100 - 15 * IssuesOfSeverity("critical") - 5 * IssuesOfSeverity("warning")
         - 2 * IssuesOfSeverity("info")
         + Bonus(health.metrics.commits.averageCommitsPerDay > 100)
         + Bonus(health.metrics.basic.contributors > 3)
         + Bonus(Len(health.metrics.branches.staleBranches) = 0) > 100
  /\ health.score = 100

\* C2: the grade in the result of analyze() is the step function of the
\* score in the same result: A from 90, B for 80..89, C for 70..79, D for
\* 60..69, F below 60; 90 is A, 89 is B, 80 is B, 79 is C, 70 is C, 69 is D,
\* 60 is D and 59 is F.
GradeFollowsScore ==
  /\ pc = "returned" =>
       /\ health.grade \in {"A", "B", "C", "D", "F"}
       /\ health.grade = "A" <=> health.score >= 90
       /\ health.grade = "B" <=> health.score \in 80..89
       /\ health.grade = "C" <=> health.score \in 70..79
       /\ health.grade = "D" <=> health.score \in 60..69
       /\ health.grade = "F" <=> health.score < 60
  /\ <<calculateGrade(90), calculateGrade(89), calculateGrade(80), calculateGrade(79),
       calculateGrade(70), calculateGrade(69), calculateGrade(60), calculateGrade(59)>>
     = <<"A", "B", "B", "C", "C", "D", "D", "F">>

\* a result with issues deducted and a grade below A
GradedBelowA ==
  /\ pc = "returned"
  /\ health.issues # <<>>
  /\ health.score \in 80..89
  /\ health.grade = "B"

\* C3: the score is 100 less 15 for each critical, 5 for each warning and 2
\* for each info issue, plus 5 for an average above one commit a day, plus 5
\* for more than three contributors, plus 5 for no stale branch, clamped to
\* 0..100; each bonus is granted on its own, issues or not.
ScoreFormula ==
  pc = "returned" =>
    health.score =
      Max(0, Min(100,
        100 - 15 * IssuesOfSeverity("critical") - 5 * IssuesOfSeverity("warning")
            - 2 * IssuesOfSeverity("info")
            + Bonus(health.metrics.commits.averageCommitsPerDay > 100)
            + Bonus(health.metrics.basic.contributors > 3)
            + Bonus(Len(health.metrics.branches.staleBranches) = 0)))

\* a result with an issue deducted and two of the bonuses granted together
TwoBonusesWithIssues ==
  /\ pc = "returned"
  /\ IssuesOfSeverity("critical") = 1
  /\ health.metrics.basic.contributors > 3
  /\ Len(health.metrics.branches.staleBranches) = 0
  /\ health.metrics.commits.averageCommitsPerDay <= 100
  /\ health.score < 100

\* <<severity, category>> of each issue of the result, in order
IssueKinds ==
  [i \in 1..Len(health.issues) |->
     <<health.issues[i].severity, health.issues[i].category>>]

\* C4: the issues of the result are, in this order and with nothing else,
\* one critical/Security issue if potentialSecrets is not empty, one
\* warning/Security issue if sensitiveFiles is not empty, one
\* warning/Performance issue if largeFiles is not empty, one
\* info/Maintenance issue if there are more than 5 stale branches, and one
\* info/Activity issue if averageCommitsPerDay is below 0.1.
IssuesPerCondition ==
  pc = "returned" =>
    IssueKinds =
      When(Len(health.metrics.security.potentialSecrets) > 0, <<"critical", "Security">>)
      \o When(Len(health.metrics.security.sensitiveFiles) > 0, <<"warning", "Security">>)
      \o When(Len(health.metrics.files.largeFiles) > 0, <<"warning", "Performance">>)
      \o When(Len(health.metrics.branches.staleBranches) > 5, <<"info", "Maintenance">>)
      \o When(health.metrics.commits.averageCommitsPerDay < 10, <<"info", "Activity">>)

\* a result in which all five conditions hold
AllFiveIssues ==
  /\ pc = "returned"
  /\ Len(health.issues) = 5
  /\ Len(health.metrics.security.potentialSecrets) > 0
  /\ Len(health.metrics.security.sensitiveFiles) > 0

\* <<priority, title>> of each recommendation of the result, in order
RecommendationKinds ==
  [i \in 1..Len(health.recommendations) |->
     <<health.recommendations[i].priority, health.recommendations[i].title>>]

\* C5: the recommendations of the result are, with nothing else, one of high
\* priority if potentialSecrets is not empty, one of medium priority if
\* largeFiles is not empty, one of low priority if there are more than 5
\* stale branches, and one of low priority if there are fewer than 2
\* contributors; they follow from the metrics alone, whatever the issues are.
RecommendationsPerCondition ==
  pc = "returned" =>
    RecommendationKinds =
      When(Len(health.metrics.security.potentialSecrets) > 0,
           <<"high", "Remove secrets from code">>)
      \o When(Len(health.metrics.files.largeFiles) > 0,
              <<"medium", "Reduce repository size">>)
      \o When(Len(health.metrics.branches.staleBranches) > 5,
              <<"low", "Clean up stale branches">>)
      \o When(health.metrics.basic.contributors < 2,
              <<"low", "Encourage collaboration">>)

\* a result with secrets and a single contributor: two recommendations, the
\* second of them without an issue of its own, beside a sensitive-files
\* issue without a recommendation of its own
RecommendationWithoutIssue ==
  /\ pc = "returned"
  /\ RecommendationKinds = << <<"high", "Remove secrets from code">>,
                              <<"low", "Encourage collaboration">> >>
  /\ IssueKinds = << <<"critical", "Security">>, <<"warning", "Security">> >>

\* C10: for an empty commit log analyzeCommitMetrics returns
\* averageCommitsPerDay 0, commitFrequency 'No commits', commitPattern
\* 'No activity' and largestCommit {hash '', files 0, date ''}; it divides
\* nothing and asks git for the diff of no commit.
EmptyLogCommitMetrics ==
  ("commits" \in finished /\ Len(gitLog) = 0) =>
    /\ commits.averageCommitsPerDay = 0
    /\ commits.commitFrequency = "No commits"
    /\ commits.commitPattern = "No activity"
    /\ commits.largestCommit = [hash |-> <<>>, files |-> 0, date |-> <<>>]
    /\ commits.divisions = 0
    /\ commits.showCalls = <<>>

\* the commit collector has run on a repository without commits
EmptyLogAnalyzed ==
  /\ "commits" \in finished
  /\ Len(gitLog) = 0
  /\ commits.commitFrequency = "No commits"

(***************************************************************************)
(* Properties of SecurityScanner.scan() (specification SpecScan)           *)
(***************************************************************************)

\* the directory names the scanner is to leave alone
ExcludedNames ==
  { <<"n","o","d","e","_","m","o","d","u","l","e","s">>, <<".","g","i","t">>,
    <<"d","i","s","t">>, <<"b","u","i","l","d">>,
    <<"c","o","v","e","r","a","g","e">>, <<".","n","e","x","t">>,
    <<"o","u","t">> }

\* the files of a tree that are not directories, each with its path from the
\* root and whether a directory on that path carries an excluded name
RECURSIVE FilesBelow(_, _, _)
FilesBelow(entries, path, excluded) ==
  IF entries = <<>> THEN {}
  ELSE LET e == Head(entries)
           p == Append(path, e.name)
       IN (IF e.isDir
             THEN FilesBelow(e.children, p, excluded \/ e.name \in ExcludedNames)
             ELSE {[path |-> p, entry |-> e, excluded |-> excluded]})
          \cup FilesBelow(Tail(entries), path, excluded)

TreeFiles == FilesBelow(tree.children, <<>>, FALSE)

\* every finding of the scan, keys first
AllFindings == security.exposedKeys \o security.potentialSecrets

ScanEnded == pc \in {"scanned", "scanRejected"}

\* C6: scan() lists no directory that carries an excluded name or lies below
\* one, at any depth, and no file below such a directory is read or
\* contributes to potentialSecrets, exposedKeys or sensitiveFiles.
ExcludedDirectoriesPruned ==
  ScanEnded =>
    /\ \A i \in 1..Len(security.readdirCalls) :
         \A j \in 1..Len(security.readdirCalls[i]) :
           security.readdirCalls[i][j] \notin ExcludedNames
    /\ \A f \in TreeFiles :
         f.excluded =>
           /\ \A i \in 1..Len(AllFindings) : AllFindings[i].file # f.path
           /\ \A i \in 1..Len(security.sensitiveFiles) :
                security.sensitiveFiles[i] # f.path
           /\ \A i \in 1..Len(security.readCalls) : security.readCalls[i] # f.path

\* a finished scan of a tree that holds a private key three directories
\* down, in a directory named out, while a key beside that directory is found
NestedExcludedDirectory ==
  /\ pc = "scanned"
  /\ \E f \in TreeFiles :
       /\ f.excluded
       /\ Len(f.path) = 4
       /\ f.entry.content # <<>>
       /\ f.entry.content[1] # <<>>
  /\ \E i \in 1..Len(security.exposedKeys) : Len(security.exposedKeys[i].file) = 2

\* the matches in the files scan() reads: files outside the excluded
\* directories, not skipped by name, not binary and readable
ScannedHits ==
  UNION { UNION { { [file |-> f.path, line |-> l, at |-> j,
                     type |-> SECRET_PATTERNS[f.entry.content[l][j].rule].name,
                     raw  |-> f.entry.content[l][j].raw]
                    : j \in 1..Len(f.entry.content[l]) }
                  : l \in 1..Len(f.entry.content) }
          : f \in { g \in TreeFiles : /\ ~g.excluded
                                      /\ g.entry.name \notin ExcludedNames
                                      /\ ~scannerIsBinaryFile(g.entry.name)
                                      /\ g.entry.readable } }

PrivateKeyHits == { h \in ScannedHits : h.type = <<"Private", "Key">> }

\* C7: after a scan exposedKeys holds the findings of the private-key rule
\* and nothing else, potentialSecrets the findings of every other rule and
\* nothing else, and each match is in exactly one of the two.
FindingsPartitioned ==
  pc = "scanned" =>
    /\ \A i \in 1..Len(security.exposedKeys) :
         security.exposedKeys[i].type = <<"Private", "Key">>
    /\ \A i \in 1..Len(security.potentialSecrets) :
         security.potentialSecrets[i].type # <<"Private", "Key">>
    /\ Len(security.exposedKeys) = Cardinality(PrivateKeyHits)
    /\ Len(security.potentialSecrets) = Cardinality(ScannedHits \ PrivateKeyHits)

\* a scan that found a private key in the same file as other secrets
KeysBesideSecrets ==
  /\ pc = "scanned"
  /\ \E i \in 1..Len(security.exposedKeys) :
       \E j \in 1..Len(security.potentialSecrets) :
         security.exposedKeys[i].file = security.potentialSecrets[j].file

\* the excerpt a finding is to carry for a raw match
ExcerptOf(raw) ==
  IF Len(raw) <= 50 THEN raw
  ELSE [i \in 1..53 |-> IF i <= 50 THEN raw[i] ELSE "."]

\* C8: the match excerpt of every finding, in either collection, has at most
\* 53 characters: it is the raw match itself when that has at most 50
\* characters, and its first 50 characters followed by '...' when it has more.
ExcerptsCapped ==
  pc = "scanned" =>
    /\ \A i \in 1..Len(AllFindings) :
         /\ Len(AllFindings[i].match) <= 53
         /\ \E h \in ScannedHits :
              /\ h.file = AllFindings[i].file
              /\ h.line = AllFindings[i].line
              /\ h.type = AllFindings[i].type
              /\ AllFindings[i].match = ExcerptOf(h.raw)
    /\ \A h \in ScannedHits :
         \E i \in 1..Len(AllFindings) :
           /\ AllFindings[i].file = h.file
           /\ AllFindings[i].line = h.line
           /\ AllFindings[i].type = h.type
           /\ AllFindings[i].match = ExcerptOf(h.raw)

\* a scan with a match of exactly 50 characters kept whole, one of 51 and
\* one of 60 both cut to 53
ExcerptsAroundFifty ==
  /\ pc = "scanned"
  /\ \E h \in ScannedHits : Len(h.raw) = 50
  /\ \E h \in ScannedHits : Len(h.raw) = 51
  /\ \E i \in 1..Len(AllFindings) :
       /\ Len(AllFindings[i].match) = 50
       /\ AllFindings[i].match[50] # "."
  /\ Cardinality({i \in 1..Len(AllFindings) : Len(AllFindings[i].match) = 53}) >= 2

\* the file name ends with an entry of the sensitive-file list
SensitiveName(name) ==
  \E s \in { SENSITIVE_FILES[k] : k \in 1..Len(SENSITIVE_FILES) } :
    /\ Len(s) <= Len(name)
    /\ \A i \in 1..Len(s) : name[Len(name) - Len(s) + i] = s[i]

\* how often a path occurs in sensitiveFiles
TimesListed(path) ==
  Cardinality({i \in 1..Len(security.sensitiveFiles) :
                 security.sensitiveFiles[i] = path})

AnalyzerSkipNames ==
  { <<".","g","i","t">>, <<"n","o","d","e","_","m","o","d","u","l","e","s">>,
    <<"d","i","s","t">>, <<"b","u","i","l","d">>,
    <<"c","o","v","e","r","a","g","e">> }

\* the files of a tree that are not directories, each with its path and
\* whether it, or a directory above it, carries one of `names`
RECURSIVE WalkFiles(_, _, _, _)
WalkFiles(entries, path, skipped, names) ==
  IF entries = <<>> THEN {}
  ELSE LET e == Head(entries)
           p == Append(path, e.name)
           s == skipped \/ e.name \in names
       IN (IF e.isDir THEN WalkFiles(e.children, p, s, names)
           ELSE {[path |-> p, entry |-> e, skipped |-> s]})
          \cup WalkFiles(Tail(entries), path, skipped, names)

\* the files the analyzer's walk visits
VisitedFiles ==
  { f \in WalkFiles(tree.children, <<>>, FALSE, AnalyzerSkipNames) : ~f.skipped }

\* the visited files above the configured size
LargeCandidates ==
  { f \in VisitedFiles : f.entry.size > options.maxFileSize * 1024 * 1024 }

FileWalkDone == pc = "collector" /\ "files" \in finished /\ ~files.threw

\* C11: with a maximum of M megabytes a visited file is a large-file
\* candidate exactly when its size is above M*1024*1024 bytes (a file of
\* that many bytes is not, one byte more is); largeFiles is the candidates
\* by size, largest first, cut to the 10 largest.
LargeFilesReported ==
  FileWalkDone =>
    /\ Len(files.largeFiles) = Min(10, Cardinality(LargeCandidates))
    /\ \A i \in 1..Len(files.largeFiles) :
         /\ \E f \in LargeCandidates :
              /\ f.path = files.largeFiles[i].path
              /\ f.entry.size = files.largeFiles[i].sizeBytes
         /\ \A j \in (i + 1)..Len(files.largeFiles) :
              /\ files.largeFiles[i].sizeBytes >= files.largeFiles[j].sizeBytes
              /\ files.largeFiles[i].path # files.largeFiles[j].path
    /\ \A f \in LargeCandidates :
         (\A i \in 1..Len(files.largeFiles) : files.largeFiles[i].path # f.path)
           => \A i \in 1..Len(files.largeFiles) :
                files.largeFiles[i].sizeBytes >= f.entry.size

\* a walk over a file of exactly the maximum, one of a byte more, and more
\* candidates than the list keeps
LargeFilesAtTheBoundary ==
  /\ FileWalkDone
  /\ \E f \in VisitedFiles : f.entry.size = options.maxFileSize * 1024 * 1024
  /\ \E f \in VisitedFiles : f.entry.size = options.maxFileSize * 1024 * 1024 + 1
  /\ Cardinality(LargeCandidates) > 10
  /\ Len(files.largeFiles) = 10

\* the branches whose lookup succeeds, by position in the branch list
LookedUp ==
  { i \in 1..Len(gitBranches.all) :
      /\ "HEAD" \notin { gitBranches.all[i].name[k] : k \in 1..Len(gitBranches.all[i].name) }
      /\ "->" \notin { gitBranches.all[i].name[k] : k \in 1..Len(gitBranches.all[i].name) }
      /\ gitBranches.all[i].lookup.kind = "latest" }

\* the age of the last commit of branch i, in ticks
AgeOf(i) == now - gitBranches.all[i].lookup.date

\* older than staleBranchDays days
StaleOnes == { i \in LookedUp : AgeOf(i) > options.staleBranchDays * TicksPerDay }

BranchesDone == pc = "collector" /\ "branches" \in finished

ScanNeverRaises == pc # "scanRejected"

\* the root of the repository is a directory that can be listed
ValidRoot == tree.listable

\* C14: analyze() rejects only for an invalid repository root; the failure
\* of one item (a file that cannot be read or stat'ed in the file walk or
\* the file count, a commit's diff lookup, a branch's log lookup) is caught,
\* the item left out, and a RepositoryHealth returned.
AnalyzeRejectsOnlyForInvalidRoot == pc = "rejected" => ~ValidRoot

\* the findings of the scan, in either collection, of severity critical
CriticalFindings ==
  SelectSeq(health.metrics.security.potentialSecrets
              \o health.metrics.security.exposedKeys,
            LAMBDA f : f.severity = "critical")

\* the score of the same metrics without any finding of the scan
FindingFreeScore ==
  LET clean == [health.metrics EXCEPT !.security = emptySecurityMetrics]
  IN calculateHealthScore(clean, identifyIssues(clean, options))

\* C16: whenever the security scan produced a finding of severity critical,
\* in potentialSecrets or in exposedKeys, the result holds an issue of
\* severity critical, its score is below that of a run without findings,
\* and the analyze command exits with status 1.
CriticalFindingsTold ==
  (pc \in {"returned", "exited"} /\ health # NoValue /\ CriticalFindings # <<>>) =>
    /\ \E i \in 1..Len(health.issues) : health.issues[i].severity = "critical"
    /\ health.score < FindingFreeScore
    /\ (invocation.command = "analyze" /\ pc = "exited") => exitCode = <<1>>

\* C17: when the repository root is invalid, the failure is signalled
\* before any collector or the security scan has started, on every entry
\* path: the analyze command, the scan command and a direct call of analyze().
InvalidRootToldBeforeCollecting ==
  invocation.root # "valid" => pc \notin {"collecting", "rejected"}

(***************************************************************************)
(* Coverage and order of the scan (specification SpecScan)                 *)
(***************************************************************************)

\* C18: scan() covers every regular file that is not below an excluded
\* directory: each is tested against the sensitive-file list and, unless it
\* has a binary extension or cannot be read, its content is scanned; the
\* exclusion by name removes directories only, never a regular file that
\* carries one of the excluded names.
EveryFileCovered ==
  pc = "scanned" =>
    \A f \in TreeFiles :
      ~f.excluded =>
        /\ SensitiveName(f.entry.name) => TimesListed(f.path) = 1
        /\ (~scannerIsBinaryFile(f.entry.name) /\ f.entry.readable) =>
             /\ \E i \in 1..Len(security.readCalls) : security.readCalls[i] = f.path
             /\ \A l \in 1..Len(f.entry.content) :
                  f.entry.content[l] # <<>> =>
                    \E i \in 1..Len(AllFindings) :
                      AllFindings[i].file = f.path /\ AllFindings[i].line = l

\* the files whose content scan() reads
ScannedFiles ==
  { f \in TreeFiles : /\ ~f.excluded
                      /\ f.entry.name \notin ExcludedNames
                      /\ ~scannerIsBinaryFile(f.entry.name)
                      /\ f.entry.readable }

\* the matches in a file: line, index of the rule, place among the matches
\* of the line, matched text
HitsOf(f) ==
  UNION { { [line |-> l, rule |-> f.entry.content[l][j].rule, at |-> j,
             raw  |-> f.entry.content[l][j].raw]
            : j \in 1..Len(f.entry.content[l]) }
          : l \in 1..Len(f.entry.content) }

\* g comes before h: by line, then by rule in the order of the table, then
\* by position in the line
Before(g, h) ==
  \/ g.line < h.line
  \/ g.line = h.line /\ g.rule < h.rule
  \/ g.line = h.line /\ g.rule = h.rule /\ g.at < h.at

\* the findings due for a set of matches of a file, in that order
FindingsDue(f, H) ==
  [k \in 1..Cardinality(H) |->
     LET h == CHOOSE x \in H : Cardinality({g \in H : Before(g, x)}) = k - 1
     IN [file     |-> f.path,
         line     |-> h.line,
         type     |-> SECRET_PATTERNS[h.rule].name,
         match    |-> ExcerptOf(h.raw),
         severity |-> SECRET_PATTERNS[h.rule].severity]]

IsKeyRule(h) == SECRET_PATTERNS[h.rule].name = <<"Private", "Key">>

\* C19: the findings of a scanned file are one for each match of each rule
\* in each line, also when a line matches several rules or one rule several
\* times; each carries the 1-based line number and the name and severity of
\* its rule; they are appended by line, then by rule in table order, then
\* by position of the match.
FindingsInOrder ==
  pc = "scanned" =>
    \A f \in ScannedFiles :
      /\ SelectSeq(security.potentialSecrets, LAMBDA x : x.file = f.path)
           = FindingsDue(f, { h \in HitsOf(f) : ~IsKeyRule(h) })
      /\ SelectSeq(security.exposedKeys, LAMBDA x : x.file = f.path)
           = FindingsDue(f, { h \in HitsOf(f) : IsKeyRule(h) })

\* a scanned file with a line on which one rule matched twice and another
\* rule once, and a later line with matches of its own
SeveralMatchesOnALine ==
  /\ pc = "scanned"
  /\ \E i \in 1..Len(security.potentialSecrets) :
       /\ i + 3 <= Len(security.potentialSecrets)
       /\ security.potentialSecrets[i].line = 1
       /\ security.potentialSecrets[i + 1].line = 1
       /\ security.potentialSecrets[i + 2].line = 1
       /\ security.potentialSecrets[i + 3].line = 3
       /\ security.potentialSecrets[i].type # security.potentialSecrets[i + 1].type
       /\ security.potentialSecrets[i + 1].type = security.potentialSecrets[i + 2].type
       /\ security.potentialSecrets[i].file = security.potentialSecrets[i + 3].file

(***************************************************************************)
(* Issue messages (specification Spec)                                     *)
(***************************************************************************)

\* the message holds the number n
Embeds(message, n) == \E k \in 1..Len(message) : message[k] = [number |-> n]

\* C20: every issue embeds in its message the count that triggered it and
\* the threshold it was compared with: the number of large files and the
\* maximum size, the number of stale branches and the stale-day threshold,
\* the commit average and 0.1, the number of secrets, the number of
\* sensitive files.
MessagesEmbedValues ==
  pc = "returned" =>
    \A i \in 1..Len(health.issues) :
      LET issue == health.issues[i]
          m     == health.metrics
      IN /\ (issue.category = "Security" /\ issue.severity = "critical") =>
              Embeds(issue.message, Len(m.security.potentialSecrets))
         /\ (issue.category = "Security" /\ issue.severity = "warning") =>
              Embeds(issue.message, Len(m.security.sensitiveFiles))
         /\ issue.category = "Performance" =>
              /\ Embeds(issue.message, Len(m.files.largeFiles))
              /\ Embeds(issue.message, options.maxFileSize)
         /\ issue.category = "Maintenance" =>
              /\ Embeds(issue.message, Len(m.branches.staleBranches))
              /\ Embeds(issue.message, options.staleBranchDays)
         /\ issue.category = "Activity" =>
              /\ Embeds(issue.message, m.commits.averageCommitsPerDay)
              /\ Embeds(issue.message, 10)

(***************************************************************************)
(* Two runs on an unchanged repository (specification SpecTwice)           *)
(***************************************************************************)

\* what of a result does not depend on Date.now(): all but the repository
\* age, the last commit date of an empty history, the stale and active
\* branches, and what is derived from them (the stale-branch issue and
\* recommendation, the score and the grade)
ClockFree(h) ==
  [basic    |-> [totalCommits   |-> h.metrics.basic.totalCommits,
                 totalBranches  |-> h.metrics.basic.totalBranches,
                 totalFiles     |-> h.metrics.basic.totalFiles,
                 contributors   |-> h.metrics.basic.contributors,
                 lastCommitDate |-> IF h.metrics.basic.totalCommits > 0
                                      THEN <<h.metrics.basic.lastCommitDate>>
                                    ELSE <<>>],
   commits  |-> h.metrics.commits,
   files    |-> h.metrics.files,
   security |-> h.metrics.security,
   branches |-> [totalBranches |-> h.metrics.branches.totalBranches,
                 defaultBranch |-> h.metrics.branches.defaultBranch],
   issues   |-> SelectSeq(h.issues, LAMBDA x : x.category # "Maintenance"),
   recommendations |->
     SelectSeq(h.recommendations,
               LAMBDA r : \A k \in 1..Len(staleBranchesRecommendation(h.metrics)) :
                            r # staleBranchesRecommendation(h.metrics)[k])]

BranchReferences ==
  { i \in 1..Len(gitBranches.all) :
      /\ "HEAD" \notin { gitBranches.all[i].name[k] : k \in 1..Len(gitBranches.all[i].name) }
      /\ "->" \notin { gitBranches.all[i].name[k] : k \in 1..Len(gitBranches.all[i].name) } }

\* C24: basic.totalBranches is the number of local and remote-tracking
\* branch references, the symbolic HEAD pointer and '->' alias entries left
\* out, and equals branches.totalBranches of the same listing.
TotalBranchesAgree ==
  pc = "returned" =>
    /\ health.metrics.basic.totalBranches = Cardinality(BranchReferences)
    /\ health.metrics.basic.totalBranches = health.metrics.branches.totalBranches

\* C26: the four collectors run in any order, each writes only its own
\* result, and all have settled before the scan, the issues, the
\* recommendations and the score are made; whatever the order, the merged
\* metrics are those of the collectors run one after the other.
CollectorsJoined ==
  /\ pc = "collecting" =>
       /\ security = NoValue /\ health = NoValue
       /\ (basic = NoValue) <=> ("basic" \notin finished)
       /\ (commits = NoValue) <=> ("commits" \notin finished)
       /\ (files = NoValue) <=> ("files" \notin finished)
       /\ (branches = NoValue) <=> ("branches" \notin finished)
  /\ pc \in {"collected", "returned"} =>
       /\ finished = Collectors
       /\ basic = analyzeBasicMetrics(gitLog, gitBranches, tree, now)
       /\ commits = analyzeCommitMetrics(gitLog, now)
       /\ files = IF options.skipFiles THEN getEmptyFileMetrics
                  ELSE analyzeFileMetrics(tree, options)
       /\ branches = analyzeBranchMetrics(gitBranches, now, options)
  /\ pc = "collected" => health = NoValue
  /\ pc = "returned" =>
       health.metrics = [basic |-> basic, commits |-> commits, files |-> files,
                         security |-> security, branches |-> branches]

\* the collectors listed last have settled and the ones listed first have not
LastCollectorsFirst ==
  /\ pc = "collecting"
  /\ finished = {"files", "branches"}
  /\ Len(branches.staleBranches) > 0
  /\ files.totalSize.tenths > 0
  /\ basic = NoValue

ActivityOutputsAgree ==
  pc = "returned" =>
    /\ (\E i \in 1..Len(health.issues) : health.issues[i].category = "Activity")
         <=> health.metrics.commits.commitFrequency \in {"Very low", "No commits"}
    /\ health.metrics.commits.averageCommitsPerDay > 100
         => health.metrics.commits.commitFrequency \in {"Active", "Very active"}

(***************************************************************************)
(* The three walks of one tree (specification SpecWalks)                   *)
(***************************************************************************)

\* the files the scanner considers: those that neither carry an excluded
\* name nor lie below a directory that does
ScannerFiles ==
  { f \in TreeFiles : ~f.excluded /\ f.entry.name \notin ExcludedNames }

RECURSIVE SumOver(_, _)
SumOver(f, S) ==
  IF S = {} THEN 0
  ELSE LET x == CHOOSE y \in S : TRUE
       IN f[x] + SumOver(f, S \ {x})

WalksDone ==
  /\ pc = "collector"
  /\ {"basic", "files", "security"} \subseteq finished
  /\ ~basic.threw /\ ~files.threw /\ ~security.threw

\* C23: countFiles and analyzeFilesRecursive apply the exclusion rules of
\* the scanner: the three walks visit the same files, so basic.totalFiles
\* and the counts of files.fileTypes count exactly the files the scanner
\* considers.
SameFilesWalked ==
  WalksDone =>
    /\ basic.totalFiles = Cardinality(ScannerFiles)
    /\ SumOver(files.fileTypes, DOMAIN files.fileTypes) = Cardinality(ScannerFiles)

(***************************************************************************)
(* Failed lookups, reported ages and the sum of the branch counts          *)
(* (specification SpecCollect)                                             *)
(***************************************************************************)

\* the branches whose lookup throws or finds no latest commit
FailedLookups ==
  { i \in BranchReferences : gitBranches.all[i].lookup.kind # "latest" }

\* the name a branch is reported under
CleanName(i) ==
  SelectSeq(gitBranches.all[i].name, LAMBDA piece : piece # "remotes/origin/")

\* the listing without the branches whose lookup fails
WithoutFailedLookups ==
  [gitBranches EXCEPT !.all =
     SelectSeq(@, LAMBDA b : b.lookup.kind = "latest" \/ isAlias(b.name))]

\* C25: a branch whose lookup throws or finds no latest commit is counted
\* neither as active nor as stale; the loop goes on after it, and all other
\* branches are classified as they are when the failing branches are not in
\* the listing.
FailedLookupsLeftOut ==
  BranchesDone =>
    /\ branches.activeBranches + Cardinality(StaleOnes)
         = Cardinality(BranchReferences \ FailedLookups)
    /\ \A i \in FailedLookups :
         \A k \in 1..Len(branches.staleBranches) :
           branches.staleBranches[k].name # CleanName(i)
    /\ branches.staleBranches
         = analyzeBranchMetrics(WithoutFailedLookups, now, options).staleBranches
    /\ branches.activeBranches
         = analyzeBranchMetrics(WithoutFailedLookups, now, options).activeBranches

\* a lookup that throws and one that finds nothing, with an active and a
\* stale branch after them in the listing
FailedLookupsAmongOthers ==
  /\ BranchesDone
  /\ \E i, j \in FailedLookups :
       /\ gitBranches.all[i].lookup.kind = "throws"
       /\ gitBranches.all[j].lookup.kind = "none"
       /\ \E a \in LookedUp \ StaleOnes : a > i /\ a > j
       /\ \E t \in StaleOnes : t > i /\ t > j
  /\ branches.activeBranches > 1
  /\ Len(branches.staleBranches) > 1

\* C28 as claimed: every entry of staleBranches reports a daysOld strictly
\* greater than staleBranchDays.
DaysOldAboveThreshold ==
  BranchesDone =>
    \A k \in 1..Len(branches.staleBranches) :
      branches.staleBranches[k].daysOld > options.staleBranchDays

\* C28: every entry of staleBranches reports as daysOld the whole days of
\* the age of a branch that is strictly older than staleBranchDays days;
\* the reported value is at least staleBranchDays, and equals it for an age
\* less than a day above the threshold.
DaysOldAtLeastThreshold ==
  BranchesDone =>
    \A k \in 1..Len(branches.staleBranches) :
      /\ branches.staleBranches[k].daysOld >= options.staleBranchDays
      /\ \E i \in LookedUp :
           /\ CleanName(i) = branches.staleBranches[k].name
           /\ AgeOf(i) > options.staleBranchDays * TicksPerDay
           /\ branches.staleBranches[k].daysOld * TicksPerDay <= AgeOf(i)
           /\ AgeOf(i) < (branches.staleBranches[k].daysOld + 1) * TicksPerDay

\* a stale branch reported with a daysOld equal to the threshold
DaysOldEqualsThreshold ==
  /\ BranchesDone
  /\ \E k \in 1..Len(branches.staleBranches) :
       branches.staleBranches[k].daysOld = options.staleBranchDays

\* C29 as claimed: when no lookup fails, totalBranches is activeBranches
\* plus the number of entries of staleBranches, for every number of
\* branches.
BranchCountsAddUp ==
  (BranchesDone /\ FailedLookups = {}) =>
    branches.totalBranches = branches.activeBranches + Len(branches.staleBranches)

\* C29: when no lookup fails, totalBranches is activeBranches plus the
\* number of entries of staleBranches as long as at most 10 branches are
\* stale; with more stale branches the list keeps 10 and the sum falls
\* short of totalBranches by the rest.
BranchCountsAddUpToTen ==
  (BranchesDone /\ FailedLookups = {}) =>
    /\ Cardinality(StaleOnes) <= 10 =>
         branches.totalBranches = branches.activeBranches + Len(branches.staleBranches)
    /\ Cardinality(StaleOnes) > 10 =>
         branches.totalBranches = branches.activeBranches + Len(branches.staleBranches)
                                    + (Cardinality(StaleOnes) - 10)

\* no lookup fails, some branches active and some, not more than 10, stale
ActiveAndStaleAddUp ==
  /\ BranchesDone
  /\ FailedLookups = {}
  /\ branches.activeBranches > 0
  /\ Len(branches.staleBranches) > 5
  /\ Cardinality(StaleOnes) <= 10
  /\ branches.totalBranches = branches.activeBranches + Len(branches.staleBranches)

(***************************************************************************)
(* The commit average, its bucket and the largest commit                   *)
(* (specification SpecCommits)                                             *)
(***************************************************************************)

CommitsDone == pc = "collector" /\ "commits" \in finished

\* ticks between the oldest and the newest commit
HistorySpan == gitLog[1].date - gitLog[Len(gitLog)].date

\* max(1, days between the oldest and the newest commit), in ticks
DaysDivisor == IF HistorySpan < TicksPerDay THEN TicksPerDay ELSE HistorySpan

\* the bucket of the average p/q commits per day
BucketOf(p, q) ==
  IF p >= 5 * q THEN "Very active"
  ELSE IF p >= q THEN "Active"
  ELSE IF 2 * p >= q THEN "Moderate"
  ELSE IF 10 * p >= q THEN "Low"
  ELSE "Very low"

Inspected == 1..(IF Len(gitLog) < 100 THEN Len(gitLog) ELSE 100)

\* the inspected commits whose git.show succeeds
Counted == { i \in Inspected : gitLog[i].show # ShowFails }

\* the newest of the counted commits that name the most files
FirstLargest ==
  CHOOSE i \in Counted :
    /\ \A j \in Counted : gitLog[j].show <= gitLog[i].show
    /\ \A j \in Counted : j < i => gitLog[j].show < gitLog[i].show

\* C22: largestCommit is taken from the 100 newest commits only, newest
\* first: it is the first of them whose count of changed files is the
\* greatest among those whose git.show succeeds (a later commit of equal
\* count does not replace it); a commit whose git.show fails is skipped and
\* the loop goes on; if no inspected commit has a positive count,
\* largestCommit stays {hash '', files 0, date ''}.
LargestCommitFound ==
  (CommitsDone /\ Len(gitLog) > 0) =>
    /\ commits.showCalls = [i \in Inspected |-> gitLog[i].hash]
    /\ IF \E i \in Counted : gitLog[i].show > 0
         THEN commits.largestCommit =
                [hash  |-> SubSeq(gitLog[FirstLargest].hash, 1, 7),
                 files |-> gitLog[FirstLargest].show,
                 date  |-> formatDate(gitLog[FirstLargest].date)]
         ELSE commits.largestCommit = [hash |-> <<>>, files |-> 0, date |-> <<>>]

\* a history of more than 100 commits: a commit beyond the 100th names more
\* files than the one reported, a git.show failed before the reported
\* commit, and a later inspected commit names as many files as it
LargestAmongTheNewestHundred ==
  /\ CommitsDone
  /\ Len(gitLog) > 100
  /\ gitLog[101].show > commits.largestCommit.files
  /\ commits.largestCommit.files > 0
  /\ \E i, j, k \in Inspected :
       /\ i < j /\ j < k
       /\ gitLog[i].show = ShowFails
       /\ SubSeq(gitLog[j].hash, 1, 7) = commits.largestCommit.hash
       /\ gitLog[k].show = commits.largestCommit.files

====
